---------------------------- MODULE Spec2Model ----------------------------
(***************************************************************************)
(* A model of the image acquisition pipeline of intermodal:                *)
(*   - the pull orchestrator (src/src/image/api/pull.rs) writing an OCI    *)
(*     image layout (src/src/image/oci/layout.rs),                         *)
(*   - the registry client's blob fetch, bearer-token handling and         *)
(*     redirect handling (src/src/image/docker/client.rs).                 *)
(* Each subsystem has its own specification over the shared variables.     *)
(***************************************************************************)
EXTENDS Integers, Sequences, FiniteSets, TLC

(***************************************************************************)
(* Bounds of the model.                                                    *)
(***************************************************************************)
\* Largest number of layers in a manifest and of diff_ids in a config.
MaxLayers == 4

(***************************************************************************)
(* Program constants.                                                      *)
(***************************************************************************)
\* pull.rs: let max_parallel_dloads = 3;
max_parallel_dloads == 3

(***************************************************************************)
(* Digests.  Byte strings are natural numbers; Sha256Hex is collision free *)
(* on them.  A Digest is the pair (algorithm, hex_digest).                 *)
(***************************************************************************)
Sha256Hex(bytes) == 2 * bytes + 1

\* Digest::from_bytes
from_bytes(bytes) == [algorithm |-> "sha256", hex_digest |-> Sha256Hex(bytes)]

\* Digest::digester: only sha256 is supported.
digester(digest) == IF digest.algorithm = "sha256" THEN "sha256" ELSE "unsupported"

\* Digest::verify over a stream that yields `bytes`, or fails while being
\* read (bytes = ReadError).  The unwraps of the digester and of each read
\* abort the calling task.
ReadError == -1

verify(digest, bytes) ==
    IF digester(digest) = "unsupported" \/ bytes = ReadError THEN "panic"
    ELSE IF Sha256Hex(bytes) = digest.hex_digest THEN "true"
    ELSE "false"

(***************************************************************************)
(* The registry's image, as the pull sees it.  A manifest with nL layers   *)
(* whose config lists nD diff_ids has its own bytes; layer i has its own   *)
(* (compressed) bytes, and so has its uncompressed tar.                    *)
(***************************************************************************)
ManifestBytes(nL, nD) == 100 + 10 * nL + nD
ConfigBytes(nD)       == 50 + nD
LayerBytes(i)         == 30 + i
Gunzip(bytes)         == bytes + 30
Corrupt(bytes)        == bytes + 500

ManifestLayers(bytes) == (bytes - 100) \div 10
ManifestDiffIds(bytes) == (bytes - 100) % 10

\* serde_json::from_slice::<Manifest>: the config descriptor and the layers.
ParseManifest(bytes) ==
    [config |-> from_bytes(ConfigBytes(ManifestDiffIds(bytes))),
     layers |-> [i \in 1..ManifestLayers(bytes) |-> from_bytes(LayerBytes(i))]]

\* serde_json::from_slice::<OCIImage>: rootfs.diff_ids.
ParseConfig(bytes) ==
    [diff_ids |-> [i \in 1..(bytes - 50) |-> from_bytes(Gunzip(LayerBytes(i)))]]

VARIABLES
    fs,          \* the layout directory on disk
    pc,          \* position of pull_container_image
    force,       \* the argument of that name
    clean_on_err,\* the argument of that name
    manifest,    \* bytes of the resolved manifest (0: not fetched)
    config,      \* bytes of the config blob (0: not fetched)
    index,       \* img_layout.index: the manifest descriptors' digests
    task,        \* state of each layer task
    fetched,     \* bytes each layer task holds from its second get_blob
    permits,     \* free permits of the semaphore
    spawned,     \* layer tasks spawned so far
    awaited,     \* join handles awaited so far
    result,      \* what pull_container_image returned
    reqLog,      \* registry requests issued
    verified     \* running layer tasks whose local unzipped_verify is true

pullVars == <<fs, pc, force, clean_on_err, manifest, config, index, task, fetched,
              permits, spawned, awaited, result, reqLog, verified>>

\* The blob fetches of callers that share the temporary directory and the
\* blob cache (Spec_Blob).
VARIABLES
    bpc,         \* position of each caller's do_get_blob
    bdigest,     \* the blob each caller fetches
    bbody,       \* the chunks of the response body each caller receives
    bfd,         \* the inode each caller's open temporary file refers to
    boff,        \* the chunks each caller has written to it
    bresult,     \* what each caller's do_get_blob returned
    calls,       \* calls each caller has made
    tempPath,    \* <tempdir>/blobs/sha256/<hex>: blob -> inode (0: no file)
    cachePath,   \* <cacheRoot>/sha256/<hex>: blob -> inode (0: no file)
    inode,       \* the contents of each inode, in chunks
    nextIno      \* inodes allocated so far

blobVars == <<bpc, bdigest, bbody, bfd, boff, bresult, calls, tempPath, cachePath,
              inode, nextIno>>

\* One DockerClient and the operations (do_get_manifest, do_get_blob,
\* do_get_repo_tags) its callers run on it (Spec_Auth).
VARIABLES
    now,            \* the clock, Utc::now()
    bearer_token,   \* DockerClient.bearer_token: <<>> is None, <<t>> is Some(t)
    auth_required,  \* DockerClient.auth_required
    apc,            \* position of each caller's operation
    akind,          \* the operation each caller runs
    areq,           \* the request each caller has in flight
    aorig,          \* the request whose response redirected the caller
    alocation,      \* the Location header of that response
    aresult,        \* what each caller's last operation returned
    startedValid,   \* history: the client held a valid token when the
                    \* caller's operation started
    lastInstalled,  \* history: the token string installed last ("" is 0)
    tokensIssued    \* tokens the token endpoint has issued

authVars == <<now, bearer_token, auth_required, apc, akind, areq, aorig, alocation,
              aresult, startedValid, lastInstalled, tokensIssued>>

\* One DockerImage over its DockerSource: resolved_manifest (Spec_Resolve).
VARIABLES
    registry,        \* the manifest the registry holds for the reference
    rarch,           \* std::env::consts::ARCH of the host
    rpc,             \* position of resolved_manifest
    manifest_cache,  \* DockerSource.manifest_cache: key -> manifest
    rreqs,           \* the manifest requests the current call has sent
    rresult,         \* what the last resolved_manifest returned
    rcalls           \* calls of resolved_manifest made

resolveVars == <<registry, rarch, rpc, manifest_cache, rreqs, rresult, rcalls>>

\* A string given to one of the reference parsers (Spec_Ref).
VARIABLES
    ref_input,     \* the string
    ref_fn,        \* the parser it was given to
    ref_result,    \* what the parser returned
    ref_string,    \* string_within_transport of the reference returned
    ref_reparsed   \* what parse_reference returned for that string

refVars == <<ref_input, ref_fn, ref_result, ref_string, ref_reparsed>>

\* A digest's text given to one of its parsers, and a stream checked against
\* a digest (Spec_Digest).
VARIABLES
    dg_text,       \* the text
    dg_fn,         \* the parser it was given to
    dg_result,     \* what the parser returned
    dg_out,        \* the digest returned, serialized
    vf_pc,         \* where verify is: idle, loop, returned, panic
    vf_digest,     \* the digest verify is called on
    vf_source,     \* how that digest was made: from_bytes, parsed
    vf_content,    \* the bytes the stream holds
    vf_stream,     \* the bytes not read yet
    vf_broken,     \* the stream fails after its bytes instead of ending
    vf_hasher,     \* the bytes the digester has been given
    vf_eof,        \* a read returned 0
    vf_value       \* what verify returned

parseVars == <<dg_text, dg_fn, dg_result, dg_out>>
verifyVars == <<vf_pc, vf_digest, vf_source, vf_content, vf_stream, vf_broken, vf_hasher,
                vf_eof, vf_value>>
digestVars == <<parseVars, verifyVars>>

\* One apply_layer over a layer's tar (Spec_Overlay).
VARIABLES
    ov_tar,        \* the entries of the tar, in order
    ov_privileged, \* the process may mknod and set trusted.* attributes
    ov_pc,         \* where apply_layer is: start, entries, Ok, Err
    ov_next,       \* the entry the loop takes next
    ov_fs,         \* what exists under diff/: the root is <<>>
    ov_opaque      \* the directories that carry trusted.overlay.opaque = "y"

overlayVars == <<ov_tar, ov_privileged, ov_pc, ov_next, ov_fs, ov_opaque>>

\* A second pull_container_image after a first one that returned Ok, from a
\* registry whose served stays the same (Spec_Repull).
VARIABLES
    served,       \* what the registry serves: the layers and how each behaves
    round,         \* 1: the first call, 2: the second
    first_fs       \* the layout as the first call left it

repullVars == <<served, round, first_fs>>

\* The files of one layout written by clones of its OCIImageLayout: blobs by
\* concurrent write_blob_file calls, index.json and oci-layout by
\* write_index_json and write_image_layout (Spec_Layout).
VARIABLES
    lo_alg,        \* blobs/<alg> exists
    lo_blob,       \* the file blobs/<alg>/<hex> of each writer's digest
    bw_pc,         \* where each write_blob_file is
    lo_meta,       \* index.json and oci-layout
    lo_previous,   \* what each of the two held before the write
    mw_pc,         \* where the write of each of the two is
    mw_buf         \* what the BufWriter of each holds

layoutVars == <<lo_alg, lo_blob, bw_pc, lo_meta, lo_previous, mw_pc, mw_buf>>

\* One DockerImage over its DockerSource and the calls made on them, one
\* after the other (Spec_Image).
VARIABLES
    im_registry,   \* the manifest the registry holds for the reference
    im_arch,       \* std::env::consts::ARCH of the host
    im_digest,     \* DockerSource.reference.digest ("" is None)
    im_cache,      \* DockerSource.manifest_cache: key -> manifest
    im_cfgblob,    \* DockerImage.cfgblob: <<>> is None, <<b>> is Some(b)
    im_todo,       \* what is left of the call being made
    im_wait,       \* the registry request the call awaits ("" is none)
    im_manifest,   \* the manifest the last get_manifest of the call returned
    im_result,     \* what the last call returned
    im_calls,      \* calls made
    im_fetched     \* history: the requests the registry answered, with the bytes

imageVars == <<im_registry, im_arch, im_digest, im_cache, im_cfgblob, im_todo, im_wait,
               im_manifest, im_result, im_calls, im_fetched>>

vars == <<pullVars, blobVars, authVars, resolveVars, refVars, digestVars, overlayVars, repullVars, layoutVars, imageVars>>

notPull == <<blobVars, authVars, resolveVars, refVars, digestVars, overlayVars, repullVars, layoutVars, imageVars>>
notBlob == <<pullVars, authVars, resolveVars, refVars, digestVars, overlayVars, repullVars, layoutVars, imageVars>>
notAuth == <<pullVars, blobVars, resolveVars, refVars, digestVars, overlayVars, repullVars, layoutVars, imageVars>>
notResolve == <<pullVars, blobVars, authVars, refVars, digestVars, overlayVars, repullVars, layoutVars, imageVars>>
notRef == <<pullVars, blobVars, authVars, resolveVars, digestVars, overlayVars, repullVars, layoutVars, imageVars>>
notDigest == <<pullVars, blobVars, authVars, resolveVars, refVars, overlayVars, repullVars, layoutVars, imageVars>>
notOverlay == <<pullVars, blobVars, authVars, resolveVars, refVars, digestVars, repullVars, layoutVars, imageVars>>
notRepull == <<pullVars, blobVars, authVars, resolveVars, refVars, digestVars, overlayVars, layoutVars, imageVars>>
notPullAgain == <<blobVars, authVars, resolveVars, refVars, digestVars, overlayVars, layoutVars, imageVars>>
notLayout == <<pullVars, blobVars, authVars, resolveVars, refVars, digestVars, overlayVars, repullVars, imageVars>>
notImage == <<pullVars, blobVars, authVars, resolveVars, refVars, digestVars, overlayVars, repullVars, layoutVars>>


(***************************************************************************)
(* The layout directory <to_path>/<name>/<tag>: its directories, the blob  *)
(* files under blobs/sha256 (file name -> bytes), index.json (the digests  *)
(* of its manifest descriptors) and oci-layout.                            *)
(***************************************************************************)
NoFiles == [h \in {} |-> 0]

NoLayout ==
    [root |-> FALSE, blobs |-> FALSE, alg |-> FALSE, files |-> NoFiles,
     has_index |-> FALSE, index_json |-> <<>>, oci_layout |-> FALSE]

\* A layout left by an earlier pull of an image without layers.
OldLayout ==
    [root |-> TRUE, blobs |-> TRUE, alg |-> TRUE,
     files |-> (Sha256Hex(ManifestBytes(0, 0)) :> ManifestBytes(0, 0))
               @@ (Sha256Hex(ConfigBytes(0)) :> ConfigBytes(0)),
     has_index |-> TRUE, index_json |-> <<Sha256Hex(ManifestBytes(0, 0))>>,
     oci_layout |-> TRUE]

\* img_layout.image_fs_path().exists()
image_fs_path_exists(f) == f.root

\* OCIImageLayout::create_fs_path: create_dir_all(<image_path>/blobs)
create_fs_path(f) == [f EXCEPT !.root = TRUE, !.blobs = TRUE]

\* OCIImageLayout::write_blob_file: creates blobs/<alg> when it is missing
\* (create_dir, which needs blobs/ to exist), then creates the file and
\* copies the reader into it.  "err" when a directory is missing.
write_blob_file_ok(f) == f.alg \/ f.blobs

write_blob_file(f, digest, bytes) ==
    [f EXCEPT !.alg = TRUE, !.files = (digest.hex_digest :> bytes) @@ f.files]

\* OCIImageLayout::write_index_json: serializes the in-memory index.
write_index_json(f, idx) == [f EXCEPT !.has_index = TRUE, !.index_json = idx]

\* OCIImageLayout::write_image_layout
write_image_layout(f) == [f EXCEPT !.oci_layout = TRUE]

\* OCIImageLayout::delete_fs_path is remove_dir_all, which is not atomic:
\* it first unlinks the entries it finds, then removes the directories,
\* and the removal of a directory fails when an entry was created in it
\* in between.
remove_dir_all_unlink(f) ==
    [f EXCEPT !.files = NoFiles, !.has_index = FALSE, !.index_json = <<>>,
              !.oci_layout = FALSE]

remove_dir_all_rmdir_ok(f) == DOMAIN f.files = {}

remove_dir_all_rmdir(f) == [f EXCEPT !.root = FALSE, !.blobs = FALSE, !.alg = FALSE]

(***************************************************************************)
(* What a registry answers to a blob request, and what get_blob makes of   *)
(* it for a caller on its own: do_get_blob verifies the body against the   *)
(* requested digest and hands the verified bytes on.                       *)
(***************************************************************************)
BlobResponses(digest) ==
    LET honest == (digest.hex_digest - 1) \div 2
    IN  {[status |-> 200, body |-> honest],
         [status |-> 200, body |-> Corrupt(honest)],
         [status |-> 404, body |-> 0]}

get_blob(digest, resp) ==
    IF resp.status # 200 THEN [ok |-> FALSE, bytes |-> 0]
    ELSE IF verify(digest, resp.body) = "true" THEN [ok |-> TRUE, bytes |-> resp.body]
    ELSE [ok |-> FALSE, bytes |-> 0]

(***************************************************************************)
(* pull_container_image and perform_image_pull.                            *)
(***************************************************************************)
Layers == 1..MaxLayers

Running == {"fetch1", "verify", "fetch2", "write"}
Finished == {"ok", "skipped", "err", "panic"}

InitPull ==
    /\ fs \in {NoLayout, OldLayout}
    /\ pc = "start"
    /\ force = FALSE
    /\ clean_on_err = FALSE
    /\ manifest = 0
    /\ config = 0
    /\ index = <<>>
    /\ task = [i \in Layers |-> "none"]
    /\ fetched = [i \in Layers |-> 0]
    /\ permits = max_parallel_dloads
    /\ spawned = 0
    /\ awaited = 0
    /\ result = "none"
    /\ reqLog = {}
    /\ verified = {}

\* pull.rs 69-80: the layout exists and force is not given: return an error;
\* with force, delete it first; otherwise go on to create it.
\* An existence check that, with force, goes on without deleting.
CheckExisting_force_without_delete(f, clean) ==
    /\ pc = "start"
    /\ force' = f
    /\ clean_on_err' = clean
    /\ IF image_fs_path_exists(fs) /\ ~f
       THEN /\ pc' = "returned"
            /\ result' = "ErrExists"
       ELSE /\ pc' = "create"
            /\ UNCHANGED result
    /\ UNCHANGED <<fs, manifest, config, index, task, fetched, permits, spawned,
                   awaited, reqLog>>
    /\ UNCHANGED verified
    /\ UNCHANGED notPull

\* An existence check that overwrites whether or not force is given.
CheckExisting_always_overwrites(f, clean) ==
    /\ pc = "start"
    /\ force' = f
    /\ clean_on_err' = clean
    /\ pc' = IF image_fs_path_exists(fs) THEN "force_unlink" ELSE "create"
    /\ UNCHANGED <<fs, manifest, config, index, task, fetched, permits, spawned,
                   awaited, result, reqLog>>
    /\ UNCHANGED verified
    /\ UNCHANGED notPull

CheckExisting(f, clean) ==
    /\ pc = "start"
    /\ force' = f
    /\ clean_on_err' = clean
    /\ IF image_fs_path_exists(fs)
       THEN IF ~f
            THEN /\ pc' = "returned"
                 /\ result' = "ErrExists"
            ELSE /\ pc' = "force_unlink"
                 /\ UNCHANGED result
       ELSE /\ pc' = "create"
            /\ UNCHANGED result
    /\ UNCHANGED <<fs, manifest, config, index, task, fetched, permits, spawned,
                   awaited, reqLog>>
    /\ UNCHANGED verified
    /\ UNCHANGED notPull

PullContainerImage == \E f \in BOOLEAN, clean \in BOOLEAN : CheckExisting(f, clean)

\* delete_fs_path, first half (both for force and for clean_on_err).
DeleteUnlink ==
    /\ pc \in {"force_unlink", "clean_unlink"}
    /\ fs' = remove_dir_all_unlink(fs)
    /\ pc' = IF pc = "force_unlink" THEN "force_rmdir" ELSE "clean_rmdir"
    /\ UNCHANGED <<force, clean_on_err, manifest, config, index, task, fetched, permits, spawned,
                   awaited, result, reqLog>>
    /\ UNCHANGED verified
    /\ UNCHANGED notPull

\* delete_fs_path, second half; on failure `?` returns the delete's error.
DeleteRmdir ==
    /\ pc \in {"force_rmdir", "clean_rmdir"}
    /\ IF remove_dir_all_rmdir_ok(fs)
       THEN /\ fs' = remove_dir_all_rmdir(fs)
            /\ IF pc = "force_rmdir"
               THEN pc' = "create" /\ UNCHANGED result
               ELSE pc' = "returned" /\ result' = "Err"
       ELSE /\ pc' = "returned"
            /\ result' = "ErrDelete"
            /\ UNCHANGED fs
    /\ UNCHANGED <<force, clean_on_err, manifest, config, index, task, fetched, permits, spawned,
                   awaited, reqLog>>
    /\ UNCHANGED verified
    /\ UNCHANGED notPull

\* pull.rs 82
CreateFsPath ==
    /\ pc = "create"
    /\ fs' = create_fs_path(fs)
    /\ pc' = "manifest"
    /\ UNCHANGED <<force, clean_on_err, manifest, config, index, task, fetched, permits, spawned,
                   awaited, result, reqLog>>
    /\ UNCHANGED verified
    /\ UNCHANGED notPull

\* perform_image_pull returned Err(e): pull.rs 87-93.
Fail == IF clean_on_err THEN "clean_unlink" ELSE "fail_return"

FailReturn ==
    /\ pc = "fail_return"
    /\ pc' = "returned"
    /\ result' = "Err"
    /\ UNCHANGED <<fs, force, clean_on_err, manifest, config, index, task, fetched, permits, spawned,
                   awaited, reqLog>>
    /\ UNCHANGED verified
    /\ UNCHANGED notPull

\* pull.rs 108-138: the resolved manifest is fetched, written as a blob under
\* the digest of its bytes, and its descriptor becomes the in-memory index.
\* wrote: write_blob_file returned Ok (pull.rs 113, the `?`).
ResolvedManifest(ok, wrote, nL, nD) ==
    /\ pc = "manifest"
    /\ reqLog' = reqLog \cup {"manifest"}
    /\ IF ok
       THEN LET bytes  == ManifestBytes(nL, nD)
                digest == from_bytes(bytes)
            IN  /\ manifest' = bytes
                /\ IF wrote
                   THEN /\ fs' = write_blob_file(fs, digest, bytes)
                        /\ index' = <<digest.hex_digest>>
                        /\ pc' = "config"
                   ELSE /\ pc' = Fail
                        /\ UNCHANGED <<fs, index>>
       ELSE /\ pc' = Fail
            /\ UNCHANGED <<manifest, fs, index>>
    /\ UNCHANGED <<force, clean_on_err, config, task, fetched, permits, spawned, awaited, result>>
    /\ UNCHANGED verified
    /\ UNCHANGED notPull

FetchManifest ==
    \E ok, wrote \in BOOLEAN, nL \in 0..MaxLayers, nD \in 0..MaxLayers :
        /\ (~ok => nL = 0 /\ nD = 0 /\ wrote)
        /\ ResolvedManifest(ok, wrote, nL, nD)

\* A pull that goes on to the layers although the config blob was not written.
ConfigBlob_ignoring_write_error(resp, wrote) ==
    /\ pc = "config"
    /\ reqLog' = reqLog \cup {"config"}
    /\ LET digest == ParseManifest(manifest).config
           got    == get_blob(digest, resp)
       IN  IF got.ok
           THEN /\ config' = got.bytes
                /\ fs' = IF wrote THEN write_blob_file(fs, digest, got.bytes) ELSE fs
                /\ pc' = "spawn"
           ELSE /\ pc' = Fail
                /\ UNCHANGED <<config, fs>>
    /\ UNCHANGED <<force, clean_on_err, manifest, index, task, fetched, permits, spawned, awaited, result>>
    /\ UNCHANGED verified
    /\ UNCHANGED notPull

\* pull.rs 142-155: the config blob is fetched through get_blob and written
\* under the manifest's config digest.
\* wrote: write_blob_file returned Ok (pull.rs 147-149, the `?`).
ConfigBlob(resp, wrote) ==
    /\ pc = "config"
    /\ reqLog' = reqLog \cup {"config"}
    /\ LET digest == ParseManifest(manifest).config
           got    == get_blob(digest, resp)
       IN  IF got.ok
           THEN /\ config' = got.bytes
                /\ IF wrote
                   THEN /\ fs' = write_blob_file(fs, digest, got.bytes)
                        /\ pc' = "spawn"
                   ELSE /\ pc' = Fail
                        /\ UNCHANGED fs
           ELSE /\ pc' = Fail
                /\ UNCHANGED <<config, fs>>
    /\ UNCHANGED <<force, clean_on_err, manifest, index, task, fetched, permits, spawned, awaited, result>>
    /\ UNCHANGED verified
    /\ UNCHANGED notPull

FetchConfig ==
    /\ pc = "config"
    /\ \E resp \in BlobResponses(ParseManifest(manifest).config), wrote \in BOOLEAN :
           ConfigBlob(resp, wrote)

\* The pairs of manifest_obj.layers.iter().zip(image_obj.rootfs.diff_ids).
Zipped ==
    LET nL == Len(ParseManifest(manifest).layers)
        nD == Len(ParseConfig(config).diff_ids)
    IN  IF nL < nD THEN nL ELSE nD

\* A loop that spawns without waiting for a permit.
acquire_owned_without_waiting == TRUE

\* semaphore.acquire_owned(): a permit is there to take.
acquire_owned == permits > 0

\* pull.rs 162-175: one round of the loop: take a permit, spawn the task.
SpawnLayer(i) ==
    /\ pc = "spawn"
    /\ i = spawned + 1
    /\ i <= Zipped
    /\ acquire_owned
    /\ permits' = permits - 1
    /\ task' = [task EXCEPT ![i] = "fetch1"]
    /\ spawned' = i
    /\ UNCHANGED <<fs, pc, force, clean_on_err, manifest, config, index, fetched,
                   awaited, result, reqLog>>
    /\ UNCHANGED verified
    /\ UNCHANGED notPull

\* The loop is over.
SpawnDone ==
    /\ pc = "spawn"
    /\ spawned = Zipped
    /\ pc' = "await"
    /\ UNCHANGED <<fs, force, clean_on_err, manifest, config, index, task, fetched, permits, spawned,
                   awaited, result, reqLog>>
    /\ UNCHANGED verified
    /\ UNCHANGED notPull

\* pull.rs 177-179: `let _ = h.await?;` returns the JoinError of a task that
\* panicked and drops the task's own Result.
join_is_err(t) == t = "panic"

AwaitLayer(i) ==
    /\ pc = "await"
    /\ i = awaited + 1
    /\ i <= spawned
    /\ task[i] \in Finished
    /\ awaited' = i
    /\ pc' = IF join_is_err(task[i]) THEN Fail ELSE "await"
    /\ UNCHANGED <<fs, force, clean_on_err, manifest, config, index, task, fetched, permits, spawned,
                   result, reqLog>>
    /\ UNCHANGED verified
    /\ UNCHANGED notPull

\* pull.rs 181-183
WriteIndexJson ==
    /\ pc = "await"
    /\ awaited = spawned
    /\ fs' = write_index_json(fs, index)
    /\ pc' = "layout"
    /\ UNCHANGED <<force, clean_on_err, manifest, config, index, task, fetched, permits, spawned,
                   awaited, result, reqLog>>
    /\ UNCHANGED verified
    /\ UNCHANGED notPull

\* pull.rs 185-189, 86
WriteImageLayout ==
    /\ pc = "layout"
    /\ fs' = write_image_layout(fs)
    /\ pc' = "returned"
    /\ result' = "Ok"
    /\ UNCHANGED <<force, clean_on_err, manifest, config, index, task, fetched, permits, spawned,
                   awaited, reqLog>>
    /\ UNCHANGED verified
    /\ UNCHANGED notPull

(***************************************************************************)
(* do_download_image_layer, run by each spawned task.  The task owns its   *)
(* permit, which is dropped when the task ends, however it ends.           *)
(***************************************************************************)
LayerDigest(i) == ParseManifest(manifest).layers[i]
DiffId(i) == ParseConfig(config).diff_ids[i]

\* What the gzip decoder yields for the layer's bytes: the uncompressed tar,
\* other bytes (the config's diff_id is not this layer's), or a read error
\* (the blob is not gzip).
Decoded(bytes) == {Gunzip(bytes), Corrupt(Gunzip(bytes)), ReadError}

\* A task that ends without giving its permit back.
TaskEnd_keeping_permit(i, how) ==
    /\ task' = [task EXCEPT ![i] = how]
    /\ UNCHANGED permits

TaskEnd(i, how) ==
    /\ task' = [task EXCEPT ![i] = how]
    /\ permits' = permits + 1

\* pull.rs 201: the first get_blob.
TaskFetch1(i, resp) ==
    /\ task[i] = "fetch1"
    /\ reqLog' = reqLog \cup {"layer"}
    /\ IF get_blob(LayerDigest(i), resp).ok
       THEN task' = [task EXCEPT ![i] = "verify"] /\ UNCHANGED permits
       ELSE TaskEnd(i, "err")
    /\ UNCHANGED <<fs, pc, force, clean_on_err, manifest, config, index, fetched,
                   spawned, awaited, result>>
    /\ verified' = IF task'[i] \in Finished THEN verified \ {i} ELSE verified
    /\ UNCHANGED notPull

\* A task that goes on to the second fetch whatever verify returned.
TaskVerify_without_check(i, decoded) ==
    /\ task[i] = "verify"
    /\ LET unzipped_verify == verify(DiffId(i), decoded)
       IN  /\ CASE unzipped_verify \in {"true", "false"} -> task' = [task EXCEPT ![i] = "fetch2"] /\ UNCHANGED permits
                [] OTHER                                -> TaskEnd(i, "panic")
           /\ verified' = IF unzipped_verify = "true" THEN verified \cup {i} ELSE verified
    /\ UNCHANGED <<fs, pc, force, clean_on_err, manifest, config, index, fetched,
                   spawned, awaited, result, reqLog>>
    /\ UNCHANGED notPull

\* pull.rs 203-209, 217-223: verify the decoded stream against the diff_id;
\* on a mismatch the task logs an error and returns Ok(()).
TaskVerify(i, decoded) ==
    /\ task[i] = "verify"
    /\ LET unzipped_verify == verify(DiffId(i), decoded)
       IN  /\ CASE unzipped_verify = "true"  -> task' = [task EXCEPT ![i] = "fetch2"] /\ UNCHANGED permits
                [] unzipped_verify = "false" -> TaskEnd(i, "skipped")
                [] OTHER                     -> TaskEnd(i, "panic")
           /\ verified' = IF unzipped_verify = "true" THEN verified \cup {i} ELSE verified
    /\ UNCHANGED <<fs, pc, force, clean_on_err, manifest, config, index, fetched,
                   spawned, awaited, result, reqLog>>
    /\ UNCHANGED notPull

\* pull.rs 212: the second get_blob.
TaskFetch2(i, resp) ==
    /\ task[i] = "fetch2"
    /\ LET got == get_blob(LayerDigest(i), resp)
       IN  IF got.ok
           THEN /\ task' = [task EXCEPT ![i] = "write"]
                /\ fetched' = [fetched EXCEPT ![i] = got.bytes]
                /\ UNCHANGED permits
           ELSE /\ TaskEnd(i, "err")
                /\ UNCHANGED fetched
    /\ reqLog' = reqLog \cup {"layer"}
    /\ UNCHANGED <<fs, pc, force, clean_on_err, manifest, config, index, spawned, awaited,
                   result>>
    /\ verified' = IF task'[i] \in Finished THEN verified \ {i} ELSE verified
    /\ UNCHANGED notPull

\* pull.rs 213-216: write the compressed blob under the layer's digest.
TaskWrite(i) ==
    /\ task[i] = "write"
    /\ IF write_blob_file_ok(fs)
       THEN /\ fs' = write_blob_file(fs, LayerDigest(i), fetched[i])
            /\ TaskEnd(i, "ok")
       ELSE /\ TaskEnd(i, "err")
            /\ UNCHANGED fs
    /\ fetched' = [fetched EXCEPT ![i] = 0]
    /\ UNCHANGED <<pc, force, clean_on_err, manifest, config, index, spawned, awaited,
                   result, reqLog>>
    /\ verified' = IF task'[i] \in Finished THEN verified \ {i} ELSE verified
    /\ UNCHANGED notPull

\* The steps of layer task i, for whatever the registry sends.
LayerFetch1(i) ==
    /\ task[i] = "fetch1"
    /\ \E resp \in BlobResponses(LayerDigest(i)) : TaskFetch1(i, resp)

LayerVerify(i) ==
    /\ task[i] = "verify"
    /\ \E decoded \in Decoded(LayerBytes(i)) : TaskVerify(i, decoded)

LayerFetch2(i) ==
    /\ task[i] = "fetch2"
    /\ \E resp \in BlobResponses(LayerDigest(i)) : TaskFetch2(i, resp)

NextPull ==
    \/ PullContainerImage
    \/ DeleteUnlink
    \/ DeleteRmdir
    \/ CreateFsPath
    \/ FailReturn
    \/ FetchManifest
    \/ FetchConfig
    \/ \E i \in Layers : SpawnLayer(i)
    \/ SpawnDone
    \/ \E i \in Layers : AwaitLayer(i)
    \/ WriteIndexJson
    \/ WriteImageLayout
    \/ \E i \in Layers : LayerFetch1(i)
    \/ \E i \in Layers : LayerVerify(i)
    \/ \E i \in Layers : LayerFetch2(i)
    \/ \E i \in Layers : TaskWrite(i)


(***************************************************************************)
(* DockerClient::do_get_blob (client.rs 253-318) for callers that fetch    *)
(* concurrently.  Every caller of a digest uses the same temporary path    *)
(* <tempdir>/blobs/<alg>/<hex> and the same cache path.  A path names an   *)
(* inode; an open file keeps its inode whatever happens to the path.       *)
(* A body arrives in chunks; JoinChunks gives the bytes of a file.         *)
(***************************************************************************)
Callers == {"a", "b"}

\* Calls of do_get_blob each caller makes at most.
MaxCalls == 2

RECURSIVE JoinChunks(_)
JoinChunks(chunks) ==
    IF chunks = <<>> THEN 0
    ELSE 16 * JoinChunks(SubSeq(chunks, 1, Len(chunks) - 1)) + chunks[Len(chunks)]

\* The blobs of the registry, by their chunks.
Blobs == {<<1, 2>>, <<2, 1>>}

BlobDigest(blob) == from_bytes(JoinChunks(blob))

\* What the registry may send for a blob: its chunks, or chunks of which
\* the last differs.
Bodies(blob) == {blob, <<blob[1], 3>>}

Inodes == 1..(Cardinality(Callers) * MaxCalls)

InitBlob ==
    /\ bpc = [p \in Callers |-> "idle"]
    /\ bdigest = [p \in Callers |-> <<>>]
    /\ bbody = [p \in Callers |-> <<>>]
    /\ bfd = [p \in Callers |-> 0]
    /\ boff = [p \in Callers |-> 0]
    /\ bresult = [p \in Callers |-> "none"]
    /\ calls = [p \in Callers |-> 0]
    /\ tempPath = [b \in Blobs |-> 0]
    /\ cachePath = [b \in Blobs |-> 0]
    /\ inode = [n \in Inodes |-> <<>>]
    /\ nextIno = 0

\* client.rs 274-276: the blob request; a failed request returns the error.
GetBlobRequest(p, blob, ok, body) ==
    /\ bpc[p] \in {"idle", "returned"}
    /\ calls[p] < MaxCalls
    /\ calls' = [calls EXCEPT ![p] = @ + 1]
    /\ bdigest' = [bdigest EXCEPT ![p] = blob]
    /\ boff' = [boff EXCEPT ![p] = 0]
    /\ bfd' = [bfd EXCEPT ![p] = 0]
    /\ IF ok
       THEN /\ bbody' = [bbody EXCEPT ![p] = body]
            /\ bpc' = [bpc EXCEPT ![p] = "create"]
            /\ bresult' = [bresult EXCEPT ![p] = "none"]
       ELSE /\ bbody' = [bbody EXCEPT ![p] = <<>>]
            /\ bpc' = [bpc EXCEPT ![p] = "returned"]
            /\ bresult' = [bresult EXCEPT ![p] = "ErrRequest"]
    /\ UNCHANGED <<tempPath, cachePath, inode, nextIno>>
    /\ UNCHANGED notBlob

\* client.rs 278-284: File::create(&blobpath) makes the file, or truncates
\* the file that is there.
FileCreate(p) ==
    /\ bpc[p] = "create"
    /\ IF tempPath[bdigest[p]] = 0
       THEN /\ nextIno' = nextIno + 1
            /\ tempPath' = [tempPath EXCEPT ![bdigest[p]] = nextIno + 1]
            /\ inode' = [inode EXCEPT ![nextIno + 1] = <<>>]
            /\ bfd' = [bfd EXCEPT ![p] = nextIno + 1]
       ELSE /\ inode' = [inode EXCEPT ![tempPath[bdigest[p]]] = <<>>]
            /\ bfd' = [bfd EXCEPT ![p] = tempPath[bdigest[p]]]
            /\ UNCHANGED <<nextIno, tempPath>>
    /\ bpc' = [bpc EXCEPT ![p] = "write"]
    /\ UNCHANGED <<bdigest, bbody, boff, bresult, calls, cachePath>>
    /\ UNCHANGED notBlob

\* A write of one chunk at offset `off` of a file: past the end of the file
\* it leaves a hole of zeros.
WriteAt(content, off, chunk) ==
    [k \in 1..(IF Len(content) > off + 1 THEN Len(content) ELSE off + 1) |->
        IF k = off + 1 THEN chunk
        ELSE IF k <= Len(content) THEN content[k]
        ELSE 0]

\* client.rs 286-290: one round of the loop that writes the body.
WriteChunk(p) ==
    /\ bpc[p] = "write"
    /\ boff[p] < Len(bbody[p])
    /\ inode' = [inode EXCEPT ![bfd[p]] = WriteAt(@, boff[p], bbody[p][boff[p] + 1])]
    /\ boff' = [boff EXCEPT ![p] = @ + 1]
    /\ UNCHANGED <<bpc, bdigest, bbody, bfd, bresult, calls, tempPath, cachePath, nextIno>>
    /\ UNCHANGED notBlob

\* What do_get_blob does on a failed verification: it returns the error.
OnMismatch(p) ==
    /\ bpc' = [bpc EXCEPT ![p] = "returned"]
    /\ bresult' = [bresult EXCEPT ![p] = "ErrDigestMismatch"]
    /\ UNCHANGED <<tempPath, inode>>

\* client.rs 291-305: the body is written; the file at the temporary path is
\* opened again and verified against the digest.
VerifyTemp(p) ==
    /\ bpc[p] = "write"
    /\ boff[p] = Len(bbody[p])
    /\ IF tempPath[bdigest[p]] = 0
       THEN /\ bpc' = [bpc EXCEPT ![p] = "returned"]
            /\ bresult' = [bresult EXCEPT ![p] = "ErrIo"]
            /\ UNCHANGED <<tempPath, inode>>
       ELSE IF verify(BlobDigest(bdigest[p]), JoinChunks(inode[tempPath[bdigest[p]]])) = "true"
            THEN /\ bpc' = [bpc EXCEPT ![p] = "rename"]
                 /\ UNCHANGED <<bresult, tempPath, inode>>
            ELSE OnMismatch(p)
    /\ UNCHANGED <<bdigest, bbody, bfd, boff, calls, cachePath, nextIno>>
    /\ UNCHANGED notBlob

\* client.rs 309-317: rename the temporary file into the cache, open it.
RenameIntoCache(p) ==
    /\ bpc[p] = "rename"
    /\ IF tempPath[bdigest[p]] = 0
       THEN /\ bresult' = [bresult EXCEPT ![p] = "ErrIo"]
            /\ UNCHANGED <<tempPath, cachePath>>
       ELSE /\ cachePath' = [cachePath EXCEPT ![bdigest[p]] = tempPath[bdigest[p]]]
            /\ tempPath' = [tempPath EXCEPT ![bdigest[p]] = 0]
            /\ bresult' = [bresult EXCEPT ![p] = "Ok"]
    /\ bpc' = [bpc EXCEPT ![p] = "returned"]
    /\ UNCHANGED <<bdigest, bbody, bfd, boff, calls, inode, nextIno>>
    /\ UNCHANGED notBlob

DoGetBlob(p) ==
    \/ \E blob \in Blobs : \E body \in Bodies(blob) : GetBlobRequest(p, blob, TRUE, body)
    \/ \E blob \in Blobs : GetBlobRequest(p, blob, FALSE, <<>>)
    \/ FileCreate(p)
    \/ WriteChunk(p)
    \/ VerifyTemp(p)
    \/ RenameIntoCache(p)

NextBlob == \E p \in Callers : DoGetBlob(p)

\* The pull before it starts, on an empty directory.
(***************************************************************************)
(* DockerClient (client.rs): get_bearer_token_for_path_scope, the header   *)
(* each operation builds, and perform_http_request.  The callers of one    *)
(* client interleave where the code awaits: on the ping, on the token      *)
(* exchange, on the request and on the re-issued request.  An operation    *)
(* is followed up to the return of perform_http_request.                   *)
(***************************************************************************)
MaxTime == 3
MaxTokens == 2

\* serde defaults of BearerToken ("" is the token string 0).
default_token == 0
expires_in_60 == 60

Operations == {"manifest", "blob", "tags"}

\* URLs a registry names in a Location header.
Locations == {"storage1", "storage2"}

\* A HeaderMap: <<>> is a header that is not there.
NoHeaders == [Accept |-> <<>>, Authorization |-> <<>>]

HttpRequest(url, method, headers) == [url |-> url, method |-> method, headers |-> headers]

NoRequest == HttpRequest("none", "none", NoHeaders)

is_still_valid_never(tok) == FALSE

\* A token that is still valid at the instant it expires.
is_still_valid_at_expiry(tok) == tok.issued_at + tok.expires_in >= now

\* BearerToken::is_still_valid: expires_at > now.
is_still_valid(tok) == tok.issued_at + tok.expires_in > now

is_valid_bearer_token == bearer_token # <<>> /\ is_still_valid(bearer_token[1])

auth_header_from_access_token(bt) == <<"Bearer", bt[1].access_token>>

\* format!("Bearer {}", bearer_token.as_ref().unwrap().token)
auth_header(bt) == <<"Bearer", bt[1].token>>

\* The headers do_get_manifest, do_get_blob and do_get_repo_tags build.
OperationHeaders(kind, required, bt) ==
    [Accept        |-> IF kind = "manifest" THEN <<"manifests">> ELSE <<>>,
     Authorization |-> IF required THEN auth_header(bt) ELSE <<>>]

RedirectRequestKeepingHeaders(method, headers, location) ==
    HttpRequest(location, method, headers)

\* The request perform_http_request re-issues on a redirect.
RedirectRequest(method, headers, location) ==
    HttpRequest(location, method, NoHeaders)

\* A token is valid iff now < issued_at + expires_in (history only).
HoldsValidToken ==
    /\ bearer_token # <<>>
    /\ now < bearer_token[1].issued_at + bearer_token[1].expires_in

InitAuth ==
    /\ now = 0
    /\ bearer_token = <<>>
    /\ auth_required = TRUE
    /\ apc = [p \in Callers |-> "idle"]
    /\ akind = [p \in Callers |-> "none"]
    /\ areq = [p \in Callers |-> NoRequest]
    /\ aorig = [p \in Callers |-> NoRequest]
    /\ alocation = [p \in Callers |-> "none"]
    /\ aresult = [p \in Callers |-> "none"]
    /\ startedValid = [p \in Callers |-> FALSE]
    /\ lastInstalled = default_token
    /\ tokensIssued = 0

\* The operation of caller p returns.
Return(p, how) ==
    /\ apc' = [apc EXCEPT ![p] = "idle"]
    /\ akind' = [akind EXCEPT ![p] = "none"]
    /\ areq' = [areq EXCEPT ![p] = NoRequest]
    /\ aorig' = [aorig EXCEPT ![p] = NoRequest]
    /\ alocation' = [alocation EXCEPT ![p] = "none"]
    /\ aresult' = [aresult EXCEPT ![p] = how]
    /\ startedValid' = [startedValid EXCEPT ![p] = FALSE]

\* After get_bearer_token_for_path_scope returned Ok: the operation builds
\* its headers from the client's state and hands the request to
\* perform_http_request (GET, handle_redirects = true).
SendOperation(p, kind, held, required, bt) ==
    IF required /\ bt = <<>>
    THEN Return(p, "panic")
    ELSE /\ apc' = [apc EXCEPT ![p] = "target"]
         /\ akind' = [akind EXCEPT ![p] = kind]
         /\ areq' = [areq EXCEPT ![p] =
                        HttpRequest(kind, "GET", OperationHeaders(kind, required, bt))]
         /\ startedValid' = [startedValid EXCEPT ![p] = held]
         /\ aresult' = [aresult EXCEPT ![p] = "none"]
         /\ UNCHANGED <<aorig, alocation>>

\* ping_repository: GET <repo_url>v2/ with no headers.
SendPing(p, kind, held) ==
    /\ apc' = [apc EXCEPT ![p] = "ping"]
    /\ akind' = [akind EXCEPT ![p] = kind]
    /\ areq' = [areq EXCEPT ![p] = HttpRequest("v2/", "GET", NoHeaders)]
    /\ startedValid' = [startedValid EXCEPT ![p] = held]
    /\ aresult' = [aresult EXCEPT ![p] = "none"]
    /\ UNCHANGED <<aorig, alocation>>

\* An operation that looks only at the token when it starts.
StartOperation_ignoring_auth_required(p, kind) ==
    /\ apc[p] = "idle"
    /\ UNCHANGED <<now, bearer_token, auth_required, lastInstalled, tokensIssued>>
    /\ IF is_valid_bearer_token
       THEN SendOperation(p, kind, HoldsValidToken, auth_required, bearer_token)
       ELSE SendPing(p, kind, HoldsValidToken)
    /\ UNCHANGED notAuth

\* An operation starts: get_bearer_token_for_path_scope up to its first await.
StartOperation(p, kind) ==
    /\ apc[p] = "idle"
    /\ UNCHANGED <<now, bearer_token, auth_required, lastInstalled, tokensIssued>>
    /\ IF ~auth_required \/ is_valid_bearer_token
       THEN SendOperation(p, kind, HoldsValidToken, auth_required, bearer_token)
       ELSE SendPing(p, kind, HoldsValidToken)
    /\ UNCHANGED notAuth

PingResponses == {"error", "200", "401_challenge", "401_bad_challenge", "401_no_header", "500"}

\* A ping whose success leaves auth_required as it was.
PingResponse_keeping_auth_required(p, resp) ==
    /\ apc[p] = "ping"
    /\ CASE resp = "200" ->
              /\ UNCHANGED auth_required
              /\ SendOperation(p, akind[p], startedValid[p], auth_required, bearer_token)
         [] resp = "401_challenge" ->
              /\ apc' = [apc EXCEPT ![p] = "token"]
              /\ areq' = [areq EXCEPT ![p] = HttpRequest("realm", "GET", NoHeaders)]
              /\ UNCHANGED <<auth_required, akind, aorig, alocation, aresult, startedValid>>
         [] resp = "401_bad_challenge" ->
              /\ Return(p, "panic")
              /\ UNCHANGED auth_required
         [] OTHER ->
              /\ Return(p, "Err")
              /\ UNCHANGED auth_required
    /\ UNCHANGED <<now, bearer_token, lastInstalled, tokensIssued>>
    /\ UNCHANGED notAuth

\* The ping is answered.
PingResponse(p, resp) ==
    /\ apc[p] = "ping"
    /\ CASE resp = "200" ->
              /\ auth_required' = FALSE
              /\ SendOperation(p, akind[p], startedValid[p], auth_required', bearer_token)
         [] resp = "401_challenge" ->
              /\ apc' = [apc EXCEPT ![p] = "token"]
              /\ areq' = [areq EXCEPT ![p] = HttpRequest("realm", "GET", NoHeaders)]
              /\ UNCHANGED <<auth_required, akind, aorig, alocation, aresult, startedValid>>
         [] resp = "401_bad_challenge" ->
              /\ Return(p, "panic")
              /\ UNCHANGED auth_required
         [] OTHER ->
              /\ Return(p, "Err")
              /\ UNCHANGED auth_required
    /\ UNCHANGED <<now, bearer_token, lastInstalled, tokensIssued>>
    /\ UNCHANGED notAuth

\* What a token endpoint may say of a token it issues now.
\* <<>> is a field the response leaves out.
IssuedAts == {<<>>} \cup {<<t>> : t \in {u \in {now - 1, now} : u >= 0}}
ExpiresIns == {<<>>, <<1>>, <<expires_in_60>>}

\* serde default of issued_at: Utc::now() when the response is read.
issued_now == now

\* serde_json::from_slice::<BearerToken>: a field that is left out gets its
\* default.
BearerToken(token, access_token, issued_at, expires_in) ==
    [token        |-> token,
     access_token |-> IF access_token = <<>> THEN default_token ELSE access_token[1],
     issued_at    |-> IF issued_at = <<>> THEN issued_now ELSE issued_at[1],
     expires_in   |-> IF expires_in = <<>> THEN expires_in_60 ELSE expires_in[1]]

\* The token endpoint answers with a token: it is installed and the
\* operation goes on to its request.
TokenIssued(p, access, issued_at, expires_in) ==
    /\ apc[p] = "token"
    /\ tokensIssued < MaxTokens
    /\ tokensIssued' = tokensIssued + 1
    /\ bearer_token' = <<BearerToken(tokensIssued',
                                      IF access THEN <<tokensIssued'>> ELSE <<>>,
                                      issued_at, expires_in)>>
    /\ lastInstalled' = tokensIssued'
    /\ SendOperation(p, akind[p], startedValid[p], auth_required, bearer_token')
    /\ UNCHANGED <<now, auth_required>>
    /\ UNCHANGED notAuth

\* The token exchange fails: the connection (Err) or the JSON (unwrap).
TokenFailed(p, how) ==
    /\ apc[p] = "token"
    /\ Return(p, how)
    /\ UNCHANGED <<now, bearer_token, auth_required, lastInstalled, tokensIssued>>
    /\ UNCHANGED notAuth

TargetResponses == {"error", "200", "3xx_location", "3xx_bad_location", "3xx_no_location", "404"}

\* perform_http_request gets the response to the operation's request.
TargetResponse(p, resp) ==
    /\ apc[p] = "target"
    /\ CASE resp = "200" -> Return(p, "Ok")
         [] resp = "3xx_location" ->
              \E location \in Locations :
                  /\ apc' = [apc EXCEPT ![p] = "redirect"]
                  /\ areq' = [areq EXCEPT ![p] =
                                 RedirectRequest(areq[p].method, areq[p].headers, location)]
                  /\ aorig' = [aorig EXCEPT ![p] = areq[p]]
                  /\ alocation' = [alocation EXCEPT ![p] = location]
                  /\ UNCHANGED <<akind, aresult, startedValid>>
         [] resp = "3xx_bad_location" -> Return(p, "panic")
         [] OTHER -> Return(p, "Err")
    /\ UNCHANGED <<now, bearer_token, auth_required, lastInstalled, tokensIssued>>
    /\ UNCHANGED notAuth

\* A perform_http_request that sends the first request again when the
\* re-issued one fails.
RedirectResponse_retrying_original(p, ok) ==
    /\ apc[p] = "redirect"
    /\ IF ok
       THEN Return(p, "Ok")
       ELSE /\ apc' = [apc EXCEPT ![p] = "target"]
            /\ areq' = [areq EXCEPT ![p] = aorig[p]]
            /\ UNCHANGED <<akind, aorig, alocation, aresult, startedValid>>
    /\ UNCHANGED <<now, bearer_token, auth_required, lastInstalled, tokensIssued>>
    /\ UNCHANGED notAuth

\* perform_http_request gets the response to the re-issued request.
RedirectResponse(p, ok) ==
    /\ apc[p] = "redirect"
    /\ Return(p, IF ok THEN "Ok" ELSE "Err")
    /\ UNCHANGED <<now, bearer_token, auth_required, lastInstalled, tokensIssued>>
    /\ UNCHANGED notAuth

\* Time passes.
Tick ==
    /\ now < MaxTime
    /\ now' = now + 1
    /\ UNCHANGED <<bearer_token, auth_required, apc, akind, areq, aorig, alocation,
                   aresult, startedValid, lastInstalled, tokensIssued>>
    /\ UNCHANGED notAuth

NextAuth ==
    \/ \E p \in Callers : \E kind \in Operations : StartOperation(p, kind)
    \/ \E p \in Callers : \E resp \in PingResponses : PingResponse(p, resp)
    \/ \E p \in Callers : \E access \in BOOLEAN :
          \E issued_at \in IssuedAts : \E expires_in \in ExpiresIns :
              TokenIssued(p, access, issued_at, expires_in)
    \/ \E p \in Callers : \E how \in {"Err", "panic"} : TokenFailed(p, how)
    \/ \E p \in Callers : \E resp \in TargetResponses : TargetResponse(p, resp)
    \/ \E p \in Callers : \E ok \in BOOLEAN : RedirectResponse(p, ok)
    \/ Tick

(***************************************************************************)
(* DockerImage::resolved_manifest (image.rs) over DockerSource::get_manifest *)
(* and its manifest cache (source.rs).  The registry holds one top-level   *)
(* manifest for the reference: a single-image manifest or a list whose     *)
(* entries name a platform and the digest of a child manifest.             *)
(***************************************************************************)
MaxEntries == 2
MaxResolves == 2

MEDIA_TYPE_DOCKER_V2_SCHEMA2_MANIFEST == "application/vnd.docker.distribution.manifest.v2+json"
MEDIA_TYPE_DOCKER_V2_LIST == "application/vnd.docker.distribution.manifest.list.v2+json"
MEDIA_TYPE_IMAGE_MANIFEST == "application/vnd.oci.image.manifest.v1+json"
MEDIA_TYPE_IMAGE_INDEX == "application/vnd.oci.image.index.v1+json"

\* The media types the client asks for in its Accept header.
DEFAULT_SUPPORTED_MANIFESTS ==
    {MEDIA_TYPE_DOCKER_V2_SCHEMA2_MANIFEST, MEDIA_TYPE_DOCKER_V2_LIST,
     MEDIA_TYPE_IMAGE_INDEX, MEDIA_TYPE_IMAGE_MANIFEST}

ListTypes == {MEDIA_TYPE_DOCKER_V2_LIST, MEDIA_TYPE_IMAGE_INDEX}

HostArchs == {"x86_64", "aarch64"}

\* platform::get_os_platform on a Linux host of the given ARCH.
get_os_platform(arch) ==
    [os |-> "linux",
     architecture |-> CASE arch = "x86_64" -> "amd64"
                        [] arch = "arm" -> "arm"
                        [] arch = "aarch64" -> "arm64"
                        [] OTHER -> arch]

\* The platform of a list entry; architecture is optional ("" is None).
EntryPlatforms ==
    {[os |-> "linux", architecture |-> "amd64"],
     [os |-> "linux", architecture |-> "arm64"],
     [os |-> "windows", architecture |-> "amd64"],
     [os |-> "linux", architecture |-> ""]}

\* The digest of the child manifest the i-th entry names.
EntryDigest(i) == <<"sha256:c1", "sha256:c2", "sha256:c3">>[i]

EntryLists == UNION {[1..n -> EntryPlatforms] : n \in 0..MaxEntries}

\* An ImageManifest: its bytes (here their name) and its media type.
ImageManifest(bytes, mime_type, entries) ==
    [manifest |-> bytes, mime_type |-> mime_type, entries |-> entries]

TopManifests ==
    {ImageManifest("top", mime, entries) :
        mime \in DEFAULT_SUPPORTED_MANIFESTS, entries \in EntryLists}

\* What the registry serves under a child digest.
ChildManifest(digest) ==
    ImageManifest(digest, MEDIA_TYPE_DOCKER_V2_SCHEMA2_MANIFEST, <<>>)

\* The loop of manifest_for_our_os_arch over list.manifests from entry i on:
\* the digest of the entry it asks the source for, "none" or "panic".
RECURSIVE ScanEntries(_, _, _)
ScanEntries(entries, i, platform) ==
    IF i > Len(entries) THEN "none"
    ELSE IF entries[i].architecture = "" THEN "panic"
    ELSE IF platform.architecture = entries[i].architecture /\ platform.os = entries[i].os
         THEN EntryDigest(i)
    ELSE ScanEntries(entries, i + 1, platform)

\* manifest_for_our_os_arch up to its await: "as_is", "err", "panic" or the
\* digest of the child manifest to get.
manifest_for_our_os_arch(original, platform) ==
    CASE original.mime_type = MEDIA_TYPE_DOCKER_V2_SCHEMA2_MANIFEST -> "as_is"
      [] original.mime_type = MEDIA_TYPE_DOCKER_V2_LIST ->
            LET found == ScanEntries(original.entries, 1, platform)
            IN  IF found = "none" THEN "err" ELSE found
      [] OTHER -> "err"

\* The key of the top-level manifest: the reference's tag.
ReferenceKey == "latest"

InitResolve ==
    /\ registry \in TopManifests
    /\ rarch \in HostArchs
    /\ rpc = "idle"
    /\ manifest_cache = [k \in {} |-> 0]
    /\ rreqs = <<>>
    /\ rresult = <<"none">>
    /\ rcalls = 0

ResolveReturn(how) ==
    /\ rpc' = "idle"
    /\ rresult' = how

\* With the original manifest in hand: manifest_for_our_os_arch, and for a
\* list get_manifest(Some(digest)), answered from the cache when it is there.
Resolve(original, cache, reqs) ==
    LET next == manifest_for_our_os_arch(original, get_os_platform(rarch))
    IN  CASE next = "as_is" -> ResolveReturn(<<"Ok", original>>) /\ rreqs' = reqs
          [] next = "err" -> ResolveReturn(<<"Err">>) /\ rreqs' = reqs
          [] next = "panic" -> ResolveReturn(<<"panic">>) /\ rreqs' = reqs
          [] OTHER ->
                IF next \in DOMAIN cache
                THEN ResolveReturn(<<"Ok", cache[next]>>) /\ rreqs' = reqs
                ELSE /\ rpc' = "child"
                     /\ rreqs' = Append(reqs, next)
                     /\ UNCHANGED rresult

\* resolved_manifest starts: get_manifest(None).
CallResolvedManifest ==
    /\ rpc = "idle"
    /\ rcalls < MaxResolves
    /\ rcalls' = rcalls + 1
    /\ IF ReferenceKey \in DOMAIN manifest_cache
       THEN Resolve(manifest_cache[ReferenceKey], manifest_cache, <<>>)
       ELSE /\ rpc' = "top"
            /\ rreqs' = <<ReferenceKey>>
            /\ rresult' = <<"none">>
    /\ UNCHANGED <<registry, rarch, manifest_cache>>
    /\ UNCHANGED notResolve

\* do_get_manifest for the reference's tag returns.
TopManifestResponse(ok) ==
    /\ rpc = "top"
    /\ IF ok
       THEN /\ manifest_cache' = manifest_cache @@ (ReferenceKey :> registry)
            /\ Resolve(registry, manifest_cache', rreqs)
       ELSE /\ ResolveReturn(<<"Err">>)
            /\ UNCHANGED <<manifest_cache, rreqs>>
    /\ UNCHANGED <<registry, rarch, rcalls>>
    /\ UNCHANGED notResolve

\* do_get_manifest for the child's digest returns.
ChildManifestResponse(ok) ==
    /\ rpc = "child"
    /\ LET digest == rreqs[Len(rreqs)]
       IN  IF ok
           THEN /\ manifest_cache' = manifest_cache @@ (digest :> ChildManifest(digest))
                /\ ResolveReturn(<<"Ok", ChildManifest(digest)>>)
           ELSE /\ ResolveReturn(<<"Err">>)
                /\ UNCHANGED manifest_cache
    /\ UNCHANGED <<registry, rarch, rreqs, rcalls>>
    /\ UNCHANGED notResolve

NextResolve ==
    \/ CallResolvedManifest
    \/ \E ok \in BOOLEAN : TopManifestResponse(ok)
    \/ \E ok \in BOOLEAN : ChildManifestResponse(ok)

\* A DockerImage nobody uses.
ResolveIdle ==
    /\ InitResolve
    /\ registry = ImageManifest("top", MEDIA_TYPE_DOCKER_V2_SCHEMA2_MANIFEST, <<>>)
    /\ rarch = "x86_64"

(***************************************************************************)
(* Image names and Docker references (transports.rs, docker/transport.rs,  *)
(* docker/reference).  A string is a sequence of atoms: the punctuation    *)
(* "/", ":" and "@", and words, each standing for the text it spells.      *)
(* What the regular expressions of reference/parser say of a word is       *)
(* tabulated; how they compose, and what the code does with the captures,  *)
(* is computed.                                                            *)
(***************************************************************************)
DEFAULT_DOCKER_DOMAIN == <<"docker.io">>
DEFAULT_DOCKER_IMGNAME_PREFIX == <<"library">>
DEFAULT_TAG == <<"latest">>
MAX_REFNAME_LEN == 256
DOCKER_TRANSPORT_NAME == <<"docker">>

Punctuation == {"/", ":", "@"}

\* "hex64" spells 64 hex digits, "x257" 257 lower-case letters.
Words == {"fedora", "dev", "localhost", "docker.io", "a_b.c", "Reg.io", "8000", "v9",
          "library", "latest", "sha256", "hex64", "abc", "x257", "docker", "focker"}

\* Words with a '.' in them.
Dotted == {"docker.io", "a_b.c", "Reg.io"}

\* DOMAIN_COMPONENT_RE ['.' DOMAIN_COMPONENT_RE]*
DomainWords == Words \ {"a_b.c"}

\* PORT_NO_RE
PortWords == {"8000"}

\* PATH_COMPONENT_RE
PathWords == Words \ {"Reg.io"}

\* TAG_RE
TagWords == Words \ {"x257"}

\* DIGEST_ALGO_RE
AlgoWords == Words

\* DIGEST_HEX_RE
HexWords == {"hex64"}

\* str::len of a word.
WordLen(w) ==
    CASE w = "x257" -> 257
      [] w = "hex64" -> 64
      [] w \in {"docker.io", "localhost"} -> 9
      [] w \in {"fedora", "Reg.io", "sha256", "docker", "focker", "latest"} -> 6
      [] w = "library" -> 7
      [] w = "a_b.c" -> 5
      [] w = "8000" -> 4
      [] w \in {"dev", "abc"} -> 3
      [] w = "v9" -> 2
      [] OTHER -> 1

RECURSIVE StrLen(_)
StrLen(s) == IF s = <<>> THEN 0 ELSE WordLen(Head(s)) + StrLen(Tail(s))

\* str::find of one atom: the index of its first occurrence, 0 if none.
Find(s, atom) ==
    IF \E i \in 1..Len(s) : s[i] = atom
    THEN CHOOSE i \in 1..Len(s) : s[i] = atom /\ \A j \in 1..(i - 1) : s[j] # atom
    ELSE 0

\* str::split on one atom.
RECURSIVE Split(_, _)
Split(s, atom) ==
    LET i == Find(s, atom)
    IN  IF i = 0 THEN <<s>>
        ELSE <<SubSeq(s, 1, i - 1)>> \o Split(SubSeq(s, i + 1, Len(s)), atom)

\* str::find("//").
FindDoubleSlash(s) ==
    IF \E i \in 1..(Len(s) - 1) : s[i] = "/" /\ s[i + 1] = "/"
    THEN CHOOSE i \in 1..(Len(s) - 1) :
            /\ s[i] = "/" /\ s[i + 1] = "/"
            /\ \A j \in 1..(i - 1) : ~(s[j] = "/" /\ s[j + 1] = "/")
    ELSE 0

\* str::split("//").
RECURSIVE SplitDoubleSlash(_)
SplitDoubleSlash(s) ==
    LET i == FindDoubleSlash(s)
    IN  IF i = 0 THEN <<s>>
        ELSE <<SubSeq(s, 1, i - 1)>> \o SplitDoubleSlash(SubSeq(s, i + 2, Len(s)))

\* DOMAIN_RE on one slash-separated component.
IsDomain(comp) ==
    \/ Len(comp) = 1 /\ comp[1] \in DomainWords
    \/ Len(comp) = 3 /\ comp[1] \in DomainWords /\ comp[2] = ":" /\ comp[3] \in PortWords

IsPathComponent(comp) == Len(comp) = 1 /\ comp[1] \in PathWords

\* DIGEST_RE
IsDigest(s) == Len(s) = 3 /\ s[1] \in AlgoWords /\ s[2] = ":" /\ s[3] \in HexWords

\* ANCHORED_CAPTURING_NAME_RE: <<>> when the name does not match, else its
\* captures; the optional domain is taken when it can be.
NameCaptures(name) ==
    LET comps == Split(name, "/")
        slash == Find(name, "/")
    IN  IF /\ Len(comps) >= 2
           /\ IsDomain(comps[1])
           /\ \A i \in 2..Len(comps) : IsPathComponent(comps[i])
        THEN <<[domain |-> comps[1], path |-> SubSeq(name, slash + 1, Len(name))]>>
        ELSE IF \A i \in 1..Len(comps) : IsPathComponent(comps[i])
        THEN <<[domain |-> <<>>, path |-> name]>>
        ELSE <<>>

\* ANCHORED_REFERENCE_RE: <<>> when the string does not match, else its
\* captures name, tag and digest (<<>> for a group that took no part).
ReferenceCaptures(s) ==
    LET at == Find(s, "@")
        body == IF at = 0 THEN s ELSE SubSeq(s, 1, at - 1)
        digest == IF at = 0 THEN <<>> ELSE SubSeq(s, at + 1, Len(s))
        n == Len(body)
        tagged == /\ n >= 3
                  /\ body[n - 1] = ":"
                  /\ body[n] \in TagWords
                  /\ NameCaptures(SubSeq(body, 1, n - 2)) # <<>>
    IN  IF at # 0 /\ ~IsDigest(digest) THEN <<>>
        ELSE IF tagged
        THEN <<[name |-> SubSeq(body, 1, n - 2), tag |-> <<body[n]>>, digest |-> digest]>>
        ELSE IF NameCaptures(body) # <<>>
        THEN <<[name |-> body, tag |-> <<>>, digest |-> digest]>>
        ELSE <<>>

\* Digest::new_from_str: Option<Digest>.
new_from_str(s) ==
    LET tokens == Split(s, ":")
    IN  IF Len(tokens) = 2
        THEN <<[algorithm |-> tokens[1], hex_digest |-> tokens[2]]>>
        ELSE <<>>

\* impl Display for Digest.
DigestToString(d) == d.algorithm \o <<":">> \o d.hex_digest

get_domain_name(input) ==
    LET slash == Find(input, "/")
        maybe_domain == SubSeq(input, 1, slash - 1)
    IN  IF slash = 0 THEN input
        ELSE IF \A i \in 1..Len(maybe_domain) :
                    maybe_domain[i] # ":" /\ maybe_domain[i] \notin Dotted
        THEN IF maybe_domain = <<"localhost">> THEN input
             ELSE DEFAULT_DOCKER_DOMAIN \o <<"/">> \o input
        ELSE input

RefErr(e) == [ok |-> FALSE, error |-> e]
RefOk(r) == [ok |-> TRUE, reference |-> r]

\* reference::api::parse
parse(input_ref) ==
    IF input_ref = <<>> THEN RefErr("EmptyName")
    ELSE
    LET input == get_domain_name(input_ref)
        c == ReferenceCaptures(input)
    IN  IF c = <<>> THEN RefErr("InvalidFormat")
        ELSE IF c[1].name = <<>> THEN RefErr("EmptyName")
        ELSE
        LET cn == NameCaptures(c[1].name)
            tag == c[1].tag
            digest == c[1].tag
        IN  IF cn = <<>> THEN RefErr("NameNotCanonical")
            ELSE
            LET domain == IF cn[1].domain = <<>> THEN DEFAULT_DOCKER_DOMAIN
                          ELSE cn[1].domain
                path_name == IF Find(cn[1].path, "/") = 0 /\ domain = DEFAULT_DOCKER_DOMAIN
                             THEN DEFAULT_DOCKER_IMGNAME_PREFIX \o <<"/">> \o cn[1].path
                             ELSE cn[1].path
            IN  IF StrLen(path_name) > MAX_REFNAME_LEN THEN RefErr("NameTooLong")
                ELSE RefOk([domain |-> domain,
                            path |-> path_name,
                            tag |-> IF tag = <<>> THEN DEFAULT_TAG ELSE tag,
                            digest |-> new_from_str(digest),
                            input_ref |-> input])

\* A rendering that leaves the tag out.
get_string_within_transport_without_tag(r) ==
    <<"/", "/">> \o r.domain \o <<"/">> \o r.path
        \o (IF r.digest # <<>> THEN <<"@">> \o DigestToString(r.digest[1]) ELSE <<>>)

\* DockerReference::get_string_within_transport
get_string_within_transport(r) ==
    <<"/", "/">> \o r.domain \o <<"/">> \o r.path
        \o (IF r.tag # <<>> THEN <<":">> \o r.tag ELSE <<>>)
        \o (IF r.digest # <<>> THEN <<"@">> \o DigestToString(r.digest[1]) ELSE <<>>)

\* DockerTransport::parse_reference
parse_reference(reference) ==
    IF FindDoubleSlash(reference) = 0 THEN RefErr("TransportError")
    ELSE LET tokens == SplitDoubleSlash(reference)
         IN  IF Len(tokens) # 2 THEN RefErr("TransportError")
             ELSE parse(tokens[2])

\* The transports init_transports registers.
ALL_TRANSPORTS_MAP == {DOCKER_TRANSPORT_NAME}

\* transports::parse_image_name; looking up a transport that is not
\* registered unwraps None.
parse_image_name(image_name) ==
    LET colon == Find(image_name, ":")
        transport_name == SubSeq(image_name, 1, colon - 1)
        reference_part == SubSeq(image_name, colon + 1, Len(image_name))
    IN  IF colon = 0 THEN RefErr("ImageError")
        ELSE IF transport_name \notin ALL_TRANSPORTS_MAP THEN RefErr("panic")
        ELSE parse_reference(reference_part)

\* The strings given to the parsers: what may stand before a reference,
\* then a domain or first component, a path, a tag and a digest.
Prefixes ==
    {<<>>, <<"/", "/">>, <<"docker", ":", "/", "/">>, <<"docker", ":">>, <<"docker">>,
     <<"docker", ":", "fedora", "/", "/">>, <<"focker", ":", "/", "/">>,
     <<"localhost", ":", "/">>, <<"docker", ":", "/", "/", "/", "/">>}

Firsts ==
    {<<>>, <<"fedora", "/">>, <<"localhost", "/">>, <<"docker.io", "/">>,
     <<"a_b.c", "/">>, <<"Reg.io", "/">>, <<"localhost", ":", "8000", "/">>}

Paths ==
    {<<>>, <<"fedora">>, <<"fedora", "/", "dev">>, <<"library", "/", "fedora">>,
     <<"a_b.c">>, <<"x257">>}

TagParts == {<<>>, <<":", "v9">>, <<":", "x257">>}

DigestParts == {<<>>, <<"@", "sha256", ":", "hex64">>, <<"@", "sha256", ":", "abc">>}

\* A string is written as its words and the punctuation between them: two
\* words never stand side by side.
IsAtomized(s) ==
    \A i \in 1..(Len(s) - 1) : s[i] \in Punctuation \/ s[i + 1] \in Punctuation

RefInputs ==
    {s \in {pre \o first \o path \o tag \o digest :
                pre \in Prefixes, first \in Firsts, path \in Paths,
                tag \in TagParts, digest \in DigestParts} : IsAtomized(s)}

InitRef ==
    /\ ref_input \in RefInputs
    /\ ref_fn = "none"
    /\ ref_result = RefErr("none")
    /\ ref_string = <<>>
    /\ ref_reparsed = RefErr("none")

\* One of the three parsers is given the string.
ApplyParse ==
    /\ ref_fn = "none"
    /\ ref_fn' = "parse"
    /\ ref_result' = parse(ref_input)
    /\ UNCHANGED <<ref_input, ref_string, ref_reparsed>>
    /\ UNCHANGED notRef

ApplyParseReference ==
    /\ ref_fn = "none"
    /\ ref_fn' = "parse_reference"
    /\ ref_result' = parse_reference(ref_input)
    /\ UNCHANGED <<ref_input, ref_string, ref_reparsed>>
    /\ UNCHANGED notRef

ApplyParseImageName ==
    /\ ref_fn = "none"
    /\ ref_fn' = "parse_image_name"
    /\ ref_result' = parse_image_name(ref_input)
    /\ UNCHANGED <<ref_input, ref_string, ref_reparsed>>
    /\ UNCHANGED notRef

\* string_within_transport of the reference obtained.
StringWithinTransport ==
    /\ ref_result.ok
    /\ ref_string = <<>>
    /\ ref_string' = get_string_within_transport(ref_result.reference)
    /\ UNCHANGED <<ref_input, ref_fn, ref_result, ref_reparsed>>
    /\ UNCHANGED notRef

\* The string so obtained is parsed by the transport.
Reparse ==
    /\ ref_string # <<>>
    /\ ref_reparsed = RefErr("none")
    /\ ref_reparsed' = parse_reference(ref_string)
    /\ UNCHANGED <<ref_input, ref_fn, ref_result, ref_string>>
    /\ UNCHANGED notRef

NextRef ==
    \/ ApplyParse
    \/ ApplyParseReference
    \/ ApplyParseImageName
    \/ StringWithinTransport
    \/ Reparse

\* No string being parsed.
RefIdle == InitRef /\ ref_input = <<>>

(***************************************************************************)
(* Digests as text and as a check of a stream.  A digest's text is written *)
(* as its pieces and the ":" between them; a byte string is a sequence of  *)
(* bytes, and the text of its SHA-256 is different for different byte      *)
(* strings.                                                                *)
(***************************************************************************)
MaxBytes == 2
BufLen == 2

Bytes == {0, 1}

ByteStrings == UNION {[1..n -> Bytes] : n \in 0..MaxBytes}

HexDigit(b) == IF b = 0 THEN "0" ELSE "1"

\* hex::encode of the SHA-256 of the bytes.
Sha256HexText(bytes) == <<"e3">> \o [i \in 1..Len(bytes) |-> HexDigit(bytes[i])]

\* What a digester that hashed only its first update would give.
finalize_first_update(hasher) ==
    Sha256HexText(IF hasher = <<>> THEN <<>> ELSE <<hasher[1]>>)

\* DynDigest::finalize followed by hex::encode.
finalize(hasher) == Sha256HexText(hasher)

\* Digest::from_bytes, as text.
Digest_from_bytes(bytes) == [algorithm |-> <<"sha256">>, hex_digest |-> Sha256HexText(bytes)]

\* str::to_lowercase of an algorithm name.
to_lowercase(s) == [i \in 1..Len(s) |-> IF s[i] = "SHA256" THEN "sha256" ELSE s[i]]

\* Digest::digester of a digest given as text.
Digest_digester(digest) ==
    IF to_lowercase(digest.algorithm) = <<"sha256">> THEN "sha256" ELSE "AlgorithmNotSupported"

\* impl FromStr for Digest
from_str(s) ==
    LET tokens == Split(s, ":")
    IN  IF Len(tokens) = 2
            THEN [ok |-> TRUE, digest |-> [algorithm |-> tokens[1], hex_digest |-> tokens[2]]]
            ELSE [ok |-> FALSE, error |-> "CannotParse"]

\* DigestVisitor::visit_str
visit_str(value) ==
    LET tokens == Split(value, ":")
    IN  IF Len(tokens) # 2
            THEN [ok |-> FALSE, error |-> "custom"]
            ELSE [ok |-> TRUE, digest |-> [algorithm |-> tokens[1], hex_digest |-> tokens[2]]]

\* Digest::new_from_str, with None as an error.
option_from_str(s) ==
    IF new_from_str(s) = <<>> THEN [ok |-> FALSE, error |-> "None"]
    ELSE [ok |-> TRUE, digest |-> new_from_str(s)[1]]

\* impl Serialize for Digest
serialize(digest) == digest.algorithm \o <<":">> \o digest.hex_digest

\* The texts given to the parsers.
AlgorithmTexts == {<<>>, <<"sha256">>, <<"SHA256">>, <<"md5">>}

HexTexts == {<<>>, <<"hex64">>, <<"abc">>, <<"ABC">>, <<"XYZ">>} \cup {Sha256HexText(b) : b \in ByteStrings}

DigestTexts ==
    {alg \o sep \o hex \o more :
        alg \in AlgorithmTexts, sep \in {<<>>, <<":">>}, hex \in HexTexts,
        more \in {<<>>, <<":", "abc">>}}

DigestParsers == {"from_str", "new_from_str", "visit_str"}

NoDigestResult == [ok |-> FALSE, error |-> "none"]

InitDigest ==
    /\ dg_text \in DigestTexts
    /\ dg_fn = "none"
    /\ dg_result = NoDigestResult
    /\ dg_out = <<>>
    /\ vf_pc = "idle"
    /\ vf_digest = Digest_from_bytes(<<>>)
    /\ vf_source = "none"
    /\ vf_content = <<>>
    /\ vf_stream = <<>>
    /\ vf_broken = FALSE
    /\ vf_hasher = <<>>
    /\ vf_eof = FALSE
    /\ vf_value = "none"

\* One of the parsers is given the text.
ParseDigest(fn) ==
    /\ dg_fn = "none"
    /\ dg_fn' = fn
    /\ dg_result' = CASE fn = "from_str" -> from_str(dg_text)
                      [] fn = "new_from_str" -> option_from_str(dg_text)
                      [] fn = "visit_str" -> visit_str(dg_text)
    /\ UNCHANGED <<dg_text, dg_out, verifyVars>>
    /\ UNCHANGED notDigest

\* The digest obtained is serialized.
SerializeDigest ==
    /\ dg_result.ok
    /\ dg_out = <<>>
    /\ dg_out' = serialize(dg_result.digest)
    /\ UNCHANGED <<dg_text, dg_fn, dg_result, verifyVars>>
    /\ UNCHANGED notDigest

\* Digest::verify is called and reaches its loop, unless the digester is
\* not to be had: the unwrap then aborts.
CallVerify(digest, source, content, broken) ==
    /\ vf_pc = "idle"
    /\ vf_digest' = digest
    /\ vf_source' = source
    /\ vf_content' = content
    /\ vf_stream' = content
    /\ vf_broken' = broken
    /\ vf_hasher' = <<>>
    /\ vf_pc' = IF Digest_digester(digest) = "sha256" THEN "loop" ELSE "panic"
    /\ UNCHANGED <<vf_eof, vf_value, parseVars>>
    /\ UNCHANGED notDigest

\* A digest made by from_bytes, no text being given, is checked against a
\* stream.
VerifyFromBytes ==
    /\ vf_pc = "idle"
    /\ dg_text = <<>>
    /\ \E bytes \in ByteStrings, content \in ByteStrings, broken \in BOOLEAN :
        CallVerify(Digest_from_bytes(bytes), "from_bytes", content, broken)

\* A digest obtained from text is checked against a stream.
VerifyParsed ==
    /\ dg_result.ok
    /\ \E content \in ByteStrings, broken \in BOOLEAN :
        CallVerify(dg_result.digest, "parsed", content, broken)

\* One read of the loop gives some bytes, which the digester takes.
VerifyRead ==
    /\ vf_pc = "loop"
    /\ vf_stream # <<>>
    /\ \E n \in 1..BufLen :
        /\ n <= Len(vf_stream)
        /\ vf_hasher' = vf_hasher \o SubSeq(vf_stream, 1, n)
        /\ vf_stream' = SubSeq(vf_stream, n + 1, Len(vf_stream))
    /\ UNCHANGED <<vf_pc, vf_digest, vf_source, vf_content, vf_broken, vf_eof, vf_value, parseVars>>
    /\ UNCHANGED notDigest

\* A read gives 0 bytes: the loop ends and the digests are compared.
VerifyEof ==
    /\ vf_pc = "loop"
    /\ vf_stream = <<>>
    /\ ~vf_broken
    /\ vf_eof' = TRUE
    /\ vf_value' = IF finalize(vf_hasher) = vf_digest.hex_digest THEN "true" ELSE "false"
    /\ vf_pc' = "returned"
    /\ UNCHANGED <<vf_digest, vf_source, vf_content, vf_stream, vf_broken, vf_hasher, parseVars>>
    /\ UNCHANGED notDigest

\* A read fails: the unwrap aborts.
VerifyReadError ==
    /\ vf_pc = "loop"
    /\ vf_stream = <<>>
    /\ vf_broken
    /\ vf_pc' = "panic"
    /\ UNCHANGED <<vf_digest, vf_source, vf_content, vf_stream, vf_broken, vf_hasher, vf_eof, vf_value, parseVars>>
    /\ UNCHANGED notDigest

NextDigest ==
    \/ \E fn \in DigestParsers : ParseDigest(fn)
    \/ SerializeDigest
    \/ VerifyFromBytes
    \/ VerifyParsed
    \/ VerifyRead
    \/ VerifyEof
    \/ VerifyReadError

\* No digest being parsed or checked.
DigestIdle == InitDigest /\ dg_text = <<>>

(***************************************************************************)
(* The overlay storage: apply_layer.  A path is the sequence of its        *)
(* components; what exists under diff/ is a set of [path, kind] with kind  *)
(* dir, file or chr (a character device 0,0).                              *)
(***************************************************************************)
MaxTarEntries == 3

WHITEOUT_OPAQUE == ".wh..wh..opq"

\* The names that contain WHITEOUT_PREFIX, and what replacing it with ""
\* leaves of each.
WhiteoutNames == {".wh.deleted", ".wh..wh..opq", "a.wh.b"}

ReplaceWhiteoutPrefix(name) ==
    CASE name = ".wh.deleted" -> "deleted"
      [] name = ".wh..wh..opq" -> ".opq"
      [] name = "a.wh.b" -> "ab"
      [] OTHER -> name

\* entry.path().contains(WHITEOUT_PREFIX)
is_whiteout(path) == \E i \in 1..Len(path) : path[i] \in WhiteoutNames

\* entry_path.ends_with(WHITEOUT_OPAQUE)
is_opaque(path) == path # <<>> /\ path[Len(path)] = WHITEOUT_OPAQUE

Parent(path) == SubSeq(path, 1, Len(path) - 1)

Prefixes_of(path) == {SubSeq(path, 1, k) : k \in 0..Len(path)}

Kind(tree, path) ==
    IF \E n \in tree : n.path = path
        THEN (CHOOSE n \in tree : n.path = path).kind
        ELSE "none"

\* std::tree::create_dir_all: fails when something on the way is not a
\* directory.
create_dir_all_ok(tree, path) ==
    \A p \in Prefixes_of(path) : Kind(tree, p) \in {"none", "dir"}

create_dir_all(tree, path) ==
    tree \cup {[path |-> p, kind |-> "dir"] : p \in {q \in Prefixes_of(path) : Kind(tree, q) = "none"}}

\* tar's Entry::unpack_in of a file or a directory: the directories above
\* are made; a file takes the place of what is not a directory, a directory
\* is made or is there already.
unpack_in_ok(tree, entry) ==
    /\ create_dir_all_ok(tree, Parent(entry.path))
    /\ IF entry.kind = "dir"
          THEN Kind(tree, entry.path) \in {"none", "dir"}
          ELSE Kind(tree, entry.path) # "dir"

unpack_in(tree, entry) ==
    LET above == create_dir_all(tree, Parent(entry.path))
    IN  {n \in above : n.path # entry.path} \cup {[path |-> entry.path, kind |-> entry.kind]}

\* libc::mknod(path, S_IFCHR, makedev(0, 0)): nothing is made when the
\* caller may not, when the directory above is missing or when the path is
\* taken.
mknod(tree, path, privileged) ==
    IF privileged /\ Kind(tree, Parent(path)) = "dir" /\ Kind(tree, path) = "none"
        THEN tree \cup {[path |-> path, kind |-> "chr"]}
        ELSE tree

\* xattr::set of trusted.overlay.opaque.
xattr_set_nothing(opaque, path) == opaque

xattr_set(opaque, path) == opaque \cup {path}

\* The path handle_whiteout makes the device at.
mknod_path(path) == [i \in 1..Len(path) |-> ReplaceWhiteoutPrefix(path[i])]

\* The entries a tar may hold.
TarEntries ==
    {[path |-> <<"dir">>, kind |-> "dir"],
     [path |-> <<"dir", "file">>, kind |-> "file"],
     [path |-> <<"dir", "deleted">>, kind |-> "file"],
     [path |-> <<"dir", ".wh.deleted">>, kind |-> "file"],
     [path |-> <<"dir", ".wh..wh..opq">>, kind |-> "file"],
     [path |-> <<".wh.deleted">>, kind |-> "file"],
     [path |-> <<"dir", "sub", ".wh..wh..opq">>, kind |-> "file"],
     [path |-> <<"a.wh.b", "file">>, kind |-> "file"]}

Tars ==
    {t \in UNION {[1..n -> TarEntries] : n \in 0..MaxTarEntries} :
        \A i, j \in 1..Len(t) : t[i] = t[j] => i = j}

InitOverlay ==
    /\ ov_tar \in Tars
    /\ ov_privileged \in BOOLEAN
    /\ ov_pc = "start"
    /\ ov_next = 1
    /\ ov_fs = {}
    /\ ov_opaque = {}

\* apply_layer makes the layer's directory and diff/ in it, and opens the
\* tar.
CreateDiff ==
    /\ ov_pc = "start"
    /\ ov_pc' = "entries"
    /\ ov_fs' = {[path |-> <<>>, kind |-> "dir"]}
    /\ UNCHANGED <<ov_tar, ov_privileged, ov_next, ov_opaque>>
    /\ UNCHANGED notOverlay

\* An entry that is not a whiteout is unpacked under diff/.
UnpackEntry ==
    /\ ov_pc = "entries"
    /\ ov_next <= Len(ov_tar)
    /\ ~is_whiteout(ov_tar[ov_next].path)
    /\ IF unpack_in_ok(ov_fs, ov_tar[ov_next])
          THEN /\ ov_fs' = unpack_in(ov_fs, ov_tar[ov_next])
               /\ ov_next' = ov_next + 1
               /\ ov_pc' = ov_pc
          ELSE /\ ov_pc' = "Err"
               /\ UNCHANGED <<ov_fs, ov_next>>
    /\ UNCHANGED <<ov_tar, ov_privileged, ov_opaque>>
    /\ UNCHANGED notOverlay

\* handle_whiteout of an opaque entry: the directory above is made and
\* marked.
HandleOpaque ==
    /\ ov_pc = "entries"
    /\ ov_next <= Len(ov_tar)
    /\ is_whiteout(ov_tar[ov_next].path)
    /\ is_opaque(ov_tar[ov_next].path)
    /\ LET joined == Parent(ov_tar[ov_next].path)
       IN  IF ~create_dir_all_ok(ov_fs, joined)
              THEN /\ ov_pc' = "Err"
                   /\ UNCHANGED <<ov_fs, ov_opaque, ov_next>>
              ELSE /\ ov_fs' = create_dir_all(ov_fs, joined)
                   /\ IF ov_privileged
                         THEN /\ ov_opaque' = xattr_set(ov_opaque, joined)
                              /\ ov_next' = ov_next + 1
                              /\ ov_pc' = ov_pc
                         ELSE /\ ov_pc' = "Err"
                              /\ UNCHANGED <<ov_opaque, ov_next>>
    /\ UNCHANGED <<ov_tar, ov_privileged>>
    /\ UNCHANGED notOverlay

\* handle_whiteout of any other entry whose path holds the prefix: mknod,
\* whose result is not looked at.
HandleWhiteout ==
    /\ ov_pc = "entries"
    /\ ov_next <= Len(ov_tar)
    /\ is_whiteout(ov_tar[ov_next].path)
    /\ ~is_opaque(ov_tar[ov_next].path)
    /\ ov_fs' = mknod(ov_fs, mknod_path(ov_tar[ov_next].path), ov_privileged)
    /\ ov_next' = ov_next + 1
    /\ UNCHANGED <<ov_tar, ov_privileged, ov_pc, ov_opaque>>
    /\ UNCHANGED notOverlay

\* The entries are through: apply_layer returns Ok.
ApplyLayerOk ==
    /\ ov_pc = "entries"
    /\ ov_next > Len(ov_tar)
    /\ ov_pc' = "Ok"
    /\ UNCHANGED <<ov_tar, ov_privileged, ov_next, ov_fs, ov_opaque>>
    /\ UNCHANGED notOverlay

NextOverlay ==
    \/ CreateDiff
    \/ UnpackEntry
    \/ HandleOpaque
    \/ HandleWhiteout
    \/ ApplyLayerOk

\* No layer being applied.
OverlayIdle == InitOverlay /\ ov_tar = <<>> /\ ~ov_privileged

(***************************************************************************)
(* Two calls of pull_container_image, one after the other, for the same    *)
(* reference and path.  The registry serves the same content to both: the  *)
(* same manifest and config, and for each layer the same answers.          *)
(***************************************************************************)
MaxRepullLayers == 2

\* How the registry and the image's config treat a layer: a good layer; one
\* whose diff_id in the config is another's; one that is not gzip; one the
\* registry does not have; one it has for the first request only.
LayerBehaviours == {"good", "mismatch", "notgzip", "gone", "nofetch2"}

NoContent == [layers |-> <<>>]

Contents == {[layers |-> l] : l \in UNION {[1..n -> LayerBehaviours] : n \in 0..MaxRepullLayers}}

InitRepull ==
    /\ served \in Contents
    /\ round = 1
    /\ first_fs = NoLayout

\* A step of the pull that takes from the registry what `served` says.
ServesContent ==
    LET n == Len(served.layers)
    IN  /\ pc = "manifest" => manifest' = ManifestBytes(n, n)
        /\ pc = "config" => config' = ConfigBytes(n)
        /\ round = 2 /\ pc = "start" => force' = TRUE
        /\ \A i \in 1..n :
              LET b == served.layers[i]
              IN  task'[i] # task[i] =>
                    CASE task[i] = "fetch1" ->
                            task'[i] = (IF b = "gone" THEN "err" ELSE "verify")
                      [] task[i] = "verify" ->
                            task'[i] = (CASE b = "mismatch" -> "skipped"
                                          [] b = "notgzip" -> "panic"
                                          [] OTHER -> "fetch2")
                      [] task[i] = "fetch2" ->
                            task'[i] = (IF b = "nofetch2" THEN "err" ELSE "write")
                      [] OTHER -> TRUE

\* The first call has returned Ok with force given: the caller calls again.
\* OCIImageLayout::new gives the call an empty index of its own.
PullAgain ==
    /\ round = 1
    /\ pc = "returned"
    /\ result = "Ok"
    /\ force
    /\ round' = 2
    /\ first_fs' = fs
    /\ pc' = "start"
    /\ manifest' = 0
    /\ config' = 0
    /\ index' = <<>>
    /\ task' = [i \in Layers |-> "none"]
    /\ fetched' = [i \in Layers |-> 0]
    /\ permits' = max_parallel_dloads
    /\ spawned' = 0
    /\ awaited' = 0
    /\ result' = "none"
    /\ reqLog' = {}
    /\ verified' = {}
    /\ UNCHANGED <<fs, force, clean_on_err, served>>
    /\ UNCHANGED notPullAgain

NextRepull ==
    \/ PullContainerImage /\ ServesContent
    \/ DeleteUnlink /\ ServesContent
    \/ DeleteRmdir /\ ServesContent
    \/ CreateFsPath /\ ServesContent
    \/ FailReturn /\ ServesContent
    \/ FetchManifest /\ ServesContent
    \/ FetchConfig /\ ServesContent
    \/ \E i \in Layers : SpawnLayer(i) /\ ServesContent
    \/ SpawnDone /\ ServesContent
    \/ \E i \in Layers : AwaitLayer(i) /\ ServesContent
    \/ WriteIndexJson /\ ServesContent
    \/ WriteImageLayout /\ ServesContent
    \/ \E i \in Layers : LayerFetch1(i) /\ ServesContent
    \/ \E i \in Layers : LayerVerify(i) /\ ServesContent
    \/ \E i \in Layers : LayerFetch2(i) /\ ServesContent
    \/ \E i \in Layers : TaskWrite(i) /\ ServesContent
    \/ PullAgain

\* No second call.
RepullIdle == InitRepull /\ served = NoContent

(***************************************************************************)
(* OCIImageLayout's writes, step by step.  A file is [exists, data], its   *)
(* data a sequence of chunks; the layout's blobs/ directory exists, as     *)
(* create_fs_path made it.                                                 *)
(***************************************************************************)
MaxChunks == 2

\* The concurrent write_blob_file calls, each with a digest of its own.
BlobWriters == {"w1", "w2"}

\* The bytes of each call's reader.
ReaderOf(w) == [k \in 1..MaxChunks |-> <<w, k>>]

NoFile == [exists |-> FALSE, data |-> <<>>]

StaleBlob == [exists |-> TRUE, data |-> <<"stale">>]

\* index.json and oci-layout, and the serialization written to each.
MetaFiles == {"index.json", "oci-layout"}

Serialized(f) == [k \in 1..MaxChunks |-> <<f, k>>]

PreviousMeta(f) == [exists |-> TRUE, data |-> <<<<f, "previous">>>>]

\* OpenOptions create(true).write(true).truncate(true), and File::create:
\* the file is there and empty.
open_truncate(file) == [exists |-> TRUE, data |-> <<>>]

InitLayout ==
    /\ lo_alg \in BOOLEAN
    /\ lo_blob \in [BlobWriters -> {NoFile, StaleBlob}]
    /\ lo_alg = FALSE => lo_blob = [w \in BlobWriters |-> NoFile]
    /\ bw_pc = [w \in BlobWriters |-> "idle"]
    /\ lo_meta \in [MetaFiles -> {NoFile}] \cup {[f \in MetaFiles |-> PreviousMeta(f)]}
    /\ lo_previous = lo_meta
    /\ mw_pc = [f \in MetaFiles |-> "idle"]
    /\ mw_buf = [f \in MetaFiles |-> <<>>]

\* layout.rs 165-168: path.exists() of blobs/<alg>.
BlobCheckDir(w) ==
    /\ bw_pc[w] = "idle"
    /\ bw_pc' = [bw_pc EXCEPT ![w] = IF lo_alg THEN "create_file" ELSE "create_dir"]
    /\ UNCHANGED <<lo_alg, lo_blob, lo_meta, lo_previous, mw_pc, mw_buf>>
    /\ UNCHANGED notLayout

\* layout.rs 169: create_dir fails when the directory is there by now.
BlobCreateDir(w) ==
    /\ bw_pc[w] = "create_dir"
    /\ IF lo_alg
          THEN /\ bw_pc' = [bw_pc EXCEPT ![w] = "Err"]
               /\ UNCHANGED lo_alg
          ELSE /\ lo_alg' = TRUE
               /\ bw_pc' = [bw_pc EXCEPT ![w] = "create_file"]
    /\ UNCHANGED <<lo_blob, lo_meta, lo_previous, mw_pc, mw_buf>>
    /\ UNCHANGED notLayout

\* layout.rs 172-174: File::create
BlobFileCreate(w) ==
    /\ bw_pc[w] = "create_file"
    /\ lo_blob' = [lo_blob EXCEPT ![w] = open_truncate(lo_blob[w])]
    /\ bw_pc' = [bw_pc EXCEPT ![w] = "copy"]
    /\ UNCHANGED <<lo_alg, lo_meta, lo_previous, mw_pc, mw_buf>>
    /\ UNCHANGED notLayout

\* layout.rs 176-178: io::copy moves the reader's bytes, then Ok.
BlobCopy(w) ==
    /\ bw_pc[w] = "copy"
    /\ LET written == Len(lo_blob[w].data)
       IN  IF written < Len(ReaderOf(w))
              THEN /\ lo_blob' = [lo_blob EXCEPT ![w].data = Append(@, ReaderOf(w)[written + 1])]
                   /\ UNCHANGED bw_pc
              ELSE /\ bw_pc' = [bw_pc EXCEPT ![w] = "Ok"]
                   /\ UNCHANGED lo_blob
    /\ UNCHANGED <<lo_alg, lo_meta, lo_previous, mw_pc, mw_buf>>
    /\ UNCHANGED notLayout

\* layout.rs 119-124, 139-144: the file is opened with truncate.
MetaOpen(f) ==
    /\ mw_pc[f] = "idle"
    /\ lo_meta' = [lo_meta EXCEPT ![f] = open_truncate(lo_meta[f])]
    /\ mw_pc' = [mw_pc EXCEPT ![f] = "write"]
    /\ UNCHANGED <<lo_alg, lo_blob, bw_pc, lo_previous, mw_buf>>
    /\ UNCHANGED notLayout

\* layout.rs 126-128, 146-148: the serialization goes into the BufWriter.
MetaWrite(f) ==
    /\ mw_pc[f] = "write"
    /\ mw_buf' = [mw_buf EXCEPT ![f] = Serialized(f)]
    /\ mw_pc' = [mw_pc EXCEPT ![f] = "flush"]
    /\ UNCHANGED <<lo_alg, lo_blob, bw_pc, lo_meta, lo_previous>>
    /\ UNCHANGED notLayout

\* layout.rs 129-131, 149-151: flush writes what the BufWriter holds, then
\* Ok.
MetaFlush(f) ==
    /\ mw_pc[f] = "flush"
    /\ IF mw_buf[f] # <<>>
          THEN /\ lo_meta' = [lo_meta EXCEPT ![f].data = Append(@, Head(mw_buf[f]))]
               /\ mw_buf' = [mw_buf EXCEPT ![f] = Tail(@)]
               /\ UNCHANGED mw_pc
          ELSE /\ mw_pc' = [mw_pc EXCEPT ![f] = "Ok"]
               /\ UNCHANGED <<lo_meta, mw_buf>>
    /\ UNCHANGED <<lo_alg, lo_blob, bw_pc, lo_previous>>
    /\ UNCHANGED notLayout

\* A write of the flush fails: `?` returns the error.
MetaFlushError(f) ==
    /\ mw_pc[f] = "flush"
    /\ mw_buf[f] # <<>>
    /\ mw_pc' = [mw_pc EXCEPT ![f] = "Err"]
    /\ UNCHANGED <<lo_alg, lo_blob, bw_pc, lo_meta, lo_previous, mw_buf>>
    /\ UNCHANGED notLayout

NextLayout ==
    \/ \E w \in BlobWriters : BlobCheckDir(w)
    \/ \E w \in BlobWriters : BlobCreateDir(w)
    \/ \E w \in BlobWriters : BlobFileCreate(w)
    \/ \E w \in BlobWriters : BlobCopy(w)
    \/ \E f \in MetaFiles : MetaOpen(f)
    \/ \E f \in MetaFiles : MetaWrite(f)
    \/ \E f \in MetaFiles : MetaFlush(f)
    \/ \E f \in MetaFiles : MetaFlushError(f)

\* Nothing being written.
LayoutIdle ==
    /\ InitLayout
    /\ lo_alg = FALSE
    /\ lo_meta = [f \in MetaFiles |-> NoFile]

(***************************************************************************)
(* DockerImage (image.rs) over DockerSource (source.rs): manifest,         *)
(* resolved_manifest, config_blob, oci_config and inspect, and get_manifest *)
(* called on the source with a digest.  The methods take &mut self, so the *)
(* calls follow one another; a call is a list of steps, and it stops at    *)
(* the first step that returns an error.                                   *)
(***************************************************************************)
MaxImageCalls == 2

\* The digest a reference may carry.
ReferenceDigest == "sha256:r"

\* Bytes a registry may send for a manifest digest that are not the bytes of
\* that digest, given as the digest they hash to.
OtherBytes == "sha256:other"

\* The bodies a registry may send for the config blob.
ConfigBodies == {"config1", "config2"}

NoManifest == ImageManifest("", "", <<>>)

\* A key that prefers the reference's tag to its digest.
digest_or_tag_tag_first(digest, reference_digest, reference_tag) ==
    IF digest = ""
    THEN IF reference_tag = "" THEN reference_digest ELSE reference_tag
    ELSE digest

\* source.rs 28-41: the key of the manifest cache.
digest_or_tag(digest, reference_digest, reference_tag) ==
    IF digest = ""
    THEN IF reference_digest = "" THEN reference_tag ELSE reference_digest
    ELSE digest

\* The steps of a call.
GetManifestStep(digest) == [op |-> "get_manifest", digest |-> digest]
ResolveStep == [op |-> "resolve_manifest", digest |-> ""]
ConfigBlobStep == [op |-> "config_blob", digest |-> ""]
GetBlobStep == [op |-> "get_blob", digest |-> ""]

\* image.rs 93-101: resolved_manifest.
resolved_manifest == <<GetManifestStep(""), ResolveStep>>

\* image.rs 89-91, 123-156 and ImageSource::get_manifest: the steps of each call.
ImageCalls == {"manifest", "get_manifest", "resolved_manifest", "config_blob",
               "oci_config", "inspect"}

Steps(call, digest) ==
    CASE call = "manifest" -> <<GetManifestStep("")>>
      [] call = "get_manifest" -> <<GetManifestStep(digest)>>
      [] call = "resolved_manifest" -> resolved_manifest
      [] call = "config_blob" -> <<ConfigBlobStep>>
      [] call = "oci_config" -> <<ConfigBlobStep>>
      [] call = "inspect" -> resolved_manifest \o <<ConfigBlobStep, ConfigBlobStep>>

\* The digests get_manifest is called with.
GivenDigests == {EntryDigest(i) : i \in 1..MaxEntries}

\* The top-level manifests of this image.
ImageTopManifests ==
    {ImageManifest("top", mime, entries) :
        mime \in {MEDIA_TYPE_DOCKER_V2_SCHEMA2_MANIFEST, MEDIA_TYPE_DOCKER_V2_LIST},
        entries \in EntryLists}

\* What a registry may serve under a key of the cache.
Served(key) ==
    IF key \in {ReferenceKey, ReferenceDigest}
    THEN {im_registry}
    ELSE {ChildManifest(key), ChildManifest(OtherBytes)}

InitImage ==
    /\ im_registry \in ImageTopManifests
    /\ im_arch \in HostArchs
    /\ im_digest \in {"", ReferenceDigest}
    /\ im_cache = [k \in {} |-> 0]
    /\ im_cfgblob = <<>>
    /\ im_todo = <<>>
    /\ im_wait = ""
    /\ im_manifest = NoManifest
    /\ im_result = <<"none">>
    /\ im_calls = 0
    /\ im_fetched = <<>>

\* A step has returned Ok: the call goes on, or returns what it has.
StepOk(image_manifest, cfgblob) ==
    /\ im_todo' = Tail(im_todo)
    /\ im_manifest' = image_manifest
    /\ im_result' = IF Len(im_todo) > 1 THEN <<"none">>
                    ELSE IF im_todo[1].op = "config_blob" \/ im_todo[1].op = "get_blob"
                         THEN <<"Ok", "bytes", cfgblob[1]>>
                         ELSE <<"Ok", "manifest", image_manifest>>

\* A step has returned an error, or panicked: so does the call.
StepErr(how) ==
    /\ im_todo' = <<>>
    /\ im_manifest' = NoManifest
    /\ im_result' = <<how>>

\* A call is made on the image or on its source.
CallImage(call, digest) ==
    /\ im_todo = <<>>
    /\ im_calls < MaxImageCalls
    /\ im_calls' = im_calls + 1
    /\ im_todo' = Steps(call, digest)
    /\ im_manifest' = NoManifest
    /\ im_result' = <<"none">>
    /\ UNCHANGED <<im_registry, im_arch, im_digest, im_cache, im_cfgblob, im_wait, im_fetched>>
    /\ UNCHANGED notImage

\* source.rs 43-52: a cached manifest is returned, otherwise do_get_manifest
\* is called with the key.
cached_or_fetch_manifest(digest) ==
    LET digest_or_tag_ == digest_or_tag(digest, im_digest, ReferenceKey)
    IN  IF digest_or_tag_ \in DOMAIN im_cache
        THEN /\ StepOk(im_cache[digest_or_tag_], im_cfgblob)
             /\ UNCHANGED im_wait
        ELSE /\ im_wait' = digest_or_tag_
             /\ UNCHANGED <<im_todo, im_manifest, im_result>>

GetManifest ==
    /\ im_todo # <<>>
    /\ im_wait = ""
    /\ im_todo[1].op = "get_manifest"
    /\ cached_or_fetch_manifest(im_todo[1].digest)
    /\ UNCHANGED <<im_registry, im_arch, im_digest, im_cache, im_cfgblob, im_calls, im_fetched>>
    /\ UNCHANGED notImage

\* source.rs 49-61: do_get_manifest returns; a manifest is put in the cache
\* under the key it was asked for.
ManifestFetched(ok, image_manifest) ==
    /\ im_wait \notin {"", "blob"}
    /\ IF ok
       THEN /\ im_cache' = (im_wait :> image_manifest) @@ im_cache
            /\ im_fetched' = Append(im_fetched, <<im_wait, image_manifest.manifest>>)
            /\ StepOk(image_manifest, im_cfgblob)
       ELSE /\ StepErr("Err")
            /\ UNCHANGED <<im_cache, im_fetched>>
    /\ im_wait' = ""
    /\ UNCHANGED <<im_registry, im_arch, im_digest, im_cfgblob, im_calls>>
    /\ UNCHANGED notImage

\* image.rs 31-72, 74-76: resolve_manifest over the manifest in hand; for a
\* list the call goes on with get_manifest(Some(digest)).
ResolveManifest ==
    /\ im_todo # <<>>
    /\ im_wait = ""
    /\ im_todo[1].op = "resolve_manifest"
    /\ LET next == manifest_for_our_os_arch(im_manifest, get_os_platform(im_arch))
       IN  CASE next = "as_is" -> StepOk(im_manifest, im_cfgblob)
             [] next \in {"err", "panic"} -> StepErr(IF next = "err" THEN "Err" ELSE "panic")
             [] OTHER ->
                   /\ im_todo' = <<GetManifestStep(next)>> \o Tail(im_todo)
                   /\ UNCHANGED <<im_manifest, im_result>>
    /\ UNCHANGED <<im_registry, im_arch, im_digest, im_cache, im_cfgblob, im_wait, im_calls,
                   im_fetched>>
    /\ UNCHANGED notImage

\* A config_blob that does not look at cfgblob.
ConfigBlobCall_without_cache ==
    /\ im_todo # <<>>
    /\ im_wait = ""
    /\ im_todo[1].op = "config_blob"
    /\ im_todo' = resolved_manifest \o <<GetBlobStep>> \o Tail(im_todo)
    /\ UNCHANGED <<im_manifest, im_result>>
    /\ UNCHANGED <<im_registry, im_arch, im_digest, im_cache, im_cfgblob, im_wait, im_calls,
                   im_fetched>>
    /\ UNCHANGED notImage

\* image.rs 103-121: config_blob returns the cached bytes, or resolves the
\* manifest and gets the blob of its config.
ConfigBlobCall ==
    /\ im_todo # <<>>
    /\ im_wait = ""
    /\ im_todo[1].op = "config_blob"
    /\ IF im_cfgblob # <<>>
       THEN StepOk(im_manifest, im_cfgblob)
       ELSE /\ im_todo' = resolved_manifest \o <<GetBlobStep>> \o Tail(im_todo)
            /\ UNCHANGED <<im_manifest, im_result>>
    /\ UNCHANGED <<im_registry, im_arch, im_digest, im_cache, im_cfgblob, im_wait, im_calls,
                   im_fetched>>
    /\ UNCHANGED notImage

\* image.rs 108: source.get_blob of the manifest's config digest.
GetBlob ==
    /\ im_todo # <<>>
    /\ im_wait = ""
    /\ im_todo[1].op = "get_blob"
    /\ im_wait' = "blob"
    /\ UNCHANGED <<im_registry, im_arch, im_digest, im_cache, im_cfgblob, im_todo, im_manifest,
                   im_result, im_calls, im_fetched>>
    /\ UNCHANGED notImage

\* image.rs 108-116: get_blob returns; the bytes become cfgblob.
BlobFetched(ok, bytes) ==
    /\ im_wait = "blob"
    /\ IF ok
       THEN /\ im_cfgblob' = <<bytes>>
            /\ im_fetched' = Append(im_fetched, <<"blob", bytes>>)
            /\ StepOk(im_manifest, im_cfgblob')
       ELSE /\ StepErr("Err")
            /\ UNCHANGED <<im_cfgblob, im_fetched>>
    /\ im_wait' = ""
    /\ UNCHANGED <<im_registry, im_arch, im_digest, im_cache, im_calls>>
    /\ UNCHANGED notImage

NextImage ==
    \/ \E call \in ImageCalls : \E digest \in GivenDigests : CallImage(call, digest)
    \/ GetManifest
    \/ \E ok \in BOOLEAN : \E served_manifest \in Served(im_wait) : ManifestFetched(ok, served_manifest)
    \/ ResolveManifest
    \/ ConfigBlobCall
    \/ GetBlob
    \/ \E ok \in BOOLEAN : \E bytes \in ConfigBodies : BlobFetched(ok, bytes)

\* A DockerImage nobody uses.
ImageIdle ==
    /\ InitImage
    /\ im_registry = ImageManifest("top", MEDIA_TYPE_DOCKER_V2_SCHEMA2_MANIFEST, <<>>)
    /\ im_arch = "x86_64"
    /\ im_digest = ""

(***************************************************************************)
(* The specifications.                                                     *)
(***************************************************************************)
PullIdle == InitPull /\ fs = NoLayout

Init == InitPull /\ InitBlob /\ InitAuth /\ ResolveIdle /\ RefIdle /\ DigestIdle /\ OverlayIdle /\ RepullIdle /\ LayoutIdle /\ ImageIdle

Spec == Init /\ [][NextPull]_vars

Init_Blob == PullIdle /\ InitBlob /\ InitAuth /\ ResolveIdle /\ RefIdle /\ DigestIdle /\ OverlayIdle /\ RepullIdle /\ LayoutIdle /\ ImageIdle

Spec_Blob == Init_Blob /\ [][NextBlob]_vars

Init_Auth == PullIdle /\ InitBlob /\ InitAuth /\ ResolveIdle /\ RefIdle /\ DigestIdle /\ OverlayIdle /\ RepullIdle /\ LayoutIdle /\ ImageIdle

Spec_Auth == Init_Auth /\ [][NextAuth]_vars

Init_Resolve == PullIdle /\ InitBlob /\ InitAuth /\ InitResolve /\ RefIdle /\ DigestIdle /\ OverlayIdle /\ RepullIdle /\ LayoutIdle /\ ImageIdle

Spec_Resolve == Init_Resolve /\ [][NextResolve]_vars

Init_Ref == PullIdle /\ InitBlob /\ InitAuth /\ ResolveIdle /\ InitRef /\ DigestIdle /\ OverlayIdle /\ RepullIdle /\ LayoutIdle /\ ImageIdle

Spec_Ref == Init_Ref /\ [][NextRef]_vars

Init_Digest == PullIdle /\ InitBlob /\ InitAuth /\ ResolveIdle /\ RefIdle /\ InitDigest /\ OverlayIdle /\ RepullIdle /\ LayoutIdle /\ ImageIdle

Spec_Digest == Init_Digest /\ [][NextDigest]_vars

Init_Overlay == PullIdle /\ InitBlob /\ InitAuth /\ ResolveIdle /\ RefIdle /\ DigestIdle /\ InitOverlay /\ RepullIdle /\ LayoutIdle /\ ImageIdle

Spec_Overlay == Init_Overlay /\ [][NextOverlay]_vars

Init_Repull == InitPull /\ InitBlob /\ InitAuth /\ ResolveIdle /\ RefIdle /\ DigestIdle /\ OverlayIdle /\ InitRepull /\ LayoutIdle /\ ImageIdle

Spec_Repull == Init_Repull /\ [][NextRepull]_vars

Init_Layout == PullIdle /\ InitBlob /\ InitAuth /\ ResolveIdle /\ RefIdle /\ DigestIdle /\ OverlayIdle /\ RepullIdle /\ InitLayout /\ ImageIdle

Spec_Layout == Init_Layout /\ [][NextLayout]_vars

Init_Image == PullIdle /\ InitBlob /\ InitAuth /\ ResolveIdle /\ RefIdle /\ DigestIdle /\ OverlayIdle /\ RepullIdle /\ LayoutIdle /\ InitImage

Spec_Image == Init_Image /\ [][NextImage]_vars

(***************************************************************************)
(* Properties of the pull.                                                 *)
(***************************************************************************)
RunningTasks == {i \in Layers : task[i] \in Running}
OutstandingBlobRequests == {i \in Layers : task[i] \in {"fetch1", "fetch2"}}

\* The file blobs/sha256/<hex> exists and its bytes hash to <hex>.
BlobPresent(f, digest) ==
    /\ f.alg
    /\ digest.hex_digest \in DOMAIN f.files
    /\ verify(digest, f.files[digest.hex_digest]) = "true"

\* Every descriptor reachable from index.json has its blob: each manifest of
\* the index, that manifest's config and each of that manifest's layers.
LayoutComplete(f) ==
    /\ f.root /\ f.oci_layout /\ f.has_index
    /\ \A k \in 1..Len(f.index_json) :
          LET md == [algorithm |-> "sha256", hex_digest |-> f.index_json[k]]
          IN  /\ BlobPresent(f, md)
              /\ LET m == ParseManifest(f.files[md.hex_digest])
                 IN  /\ BlobPresent(f, m.config)
                     /\ \A i \in 1..Len(m.layers) : BlobPresent(f, m.layers[i])

\* C1: after pull_container_image returns Ok the layout holds oci-layout,
\* index.json and, for every descriptor reachable from index.json (the
\* manifest, its config, each of its layers), a blob file whose bytes hash
\* to the descriptor's digest.
C1_LayoutCompleteAfterOk ==
    (pc = "returned" /\ result = "Ok") => LayoutComplete(fs)

\* C2: at most 3 layer tasks are in progress in any state, each holding one
\* of the 3 permits from before it is spawned until it ends, so at most 3
\* layer blob requests are outstanding.
C2_AtMostThreeLayerTasks ==
    /\ Cardinality(RunningTasks) <= 3
    /\ permits = 3 - Cardinality(RunningTasks)
    /\ Cardinality(OutstandingBlobRequests) <= 3

\* Three tasks run, each with a blob request outstanding, and a fourth
\* layer waits for a permit.
C2_Witness ==
    /\ pc = "spawn"
    /\ Cardinality(RunningTasks) = 3
    /\ Cardinality(OutstandingBlobRequests) = 3
    /\ spawned < Zipped
    /\ permits = 0

\* C3: when the decompressed content of a fetched layer does not hash to its
\* diff_id, pull_container_image returns an error and neither the layer blob
\* nor index.json is written.
C3_DiffIdMismatchFailsPull ==
    \A i \in Layers :
        (task[i] = "skipped" /\ pc = "returned") =>
            /\ result # "Ok"
            /\ ~fs.has_index
            /\ LayerDigest(i).hex_digest \notin DOMAIN fs.files

\* C4: with the layout root present and force not given, the call returns an
\* error, leaves the directory tree as it was and issues no registry request.
C4_ExistsWithoutForceNoSideEffects ==
    /\ [][(pc = "start" /\ image_fs_path_exists(fs) /\ ~force' /\ pc' # "start")
            => (pc' = "returned" /\ result' = "ErrExists" /\ fs' = fs /\ reqLog' = {})]_vars
    /\ [](result = "ErrExists" => (fs = OldLayout /\ reqLog = {} /\ RunningTasks = {}))

C4_Witness == pc = "returned" /\ result = "ErrExists" /\ fs = OldLayout

\* C5: when the pull fails after the layout directory was created and
\* clean_on_err is given, the layout root does not exist once the call has
\* returned, and stays absent.
C5_CleanOnErrRemovesRoot ==
    (pc = "returned" /\ "manifest" \in reqLog /\ result # "Ok" /\ clean_on_err)
        => ~fs.root


(***************************************************************************)
(* Properties of the blob cache.                                           *)
(***************************************************************************)
\* C6: every file in the blob cache at <cacheRoot>/<alg>/<hex> has bytes
\* that hash to <alg>:<hex>, in every reachable state of any interleaving of
\* do_get_blob calls.
C6_CacheFilesMatchDigest ==
    \A blob \in Blobs :
        cachePath[blob] # 0 =>
            verify(BlobDigest(blob), JoinChunks(inode[cachePath[blob]])) = "true"

\* C7: when the downloaded bytes do not hash to the requested digest, the
\* call returns a digest-mismatch error, the temporary file no longer exists
\* and nothing is added to the blob cache.
C7_MismatchDiscardsTempFile ==
    [][\A p \in Callers :
          (bpc[p] = "write" /\ bpc'[p] = "returned" /\ bresult'[p] = "ErrDigestMismatch")
              => (tempPath'[bdigest[p]] = 0 /\ cachePath' = cachePath)]_vars


(***************************************************************************)
(* Properties of the registry client.                                      *)
(***************************************************************************)
\* C8: an operation that started while the client held a bearer token that
\* was still valid sends no ping and no token exchange; a ping or a token
\* exchange is in flight only for an operation that started with no token
\* or after the token's issued_at + expires_in.
C8_NoPingWhileTokenValid ==
    \A p \in Callers :
        (apc[p] \in {"ping", "token"} \/ areq[p].url \in {"v2/", "realm"})
            => ~startedValid[p]

C8_Witness ==
    \E p \in Callers :
        /\ startedValid[p]
        /\ auth_required
        /\ apc[p] = "target"
        /\ areq[p].url \in Operations

\* C9: once a token has been obtained, every manifest, blob or tag-list
\* request sent while authentication is required carries
\* Authorization: Bearer T', T' being the token installed last.
C9_RequestsCarryLatestToken ==
    [][\A p \in Callers :
          (apc[p] # "target" /\ apc'[p] = "target" /\ auth_required' /\ tokensIssued' > 0)
              => areq'[p].headers.Authorization = <<"Bearer", lastInstalled'>>]_vars

C9_Witness ==
    \E p \in Callers :
        /\ apc[p] = "target"
        /\ auth_required
        /\ lastInstalled > 1
        /\ startedValid[p]
        /\ areq[p].headers.Authorization = <<"Bearer", lastInstalled>>

\* C10: the request re-issued after a 3xx response with a Location header
\* has the method of the original request, goes to the Location URL and
\* carries no Authorization header.
C10_RedirectSameMethodNoAuthorization ==
    \A p \in Callers :
        apc[p] = "redirect" =>
            /\ areq[p].method = aorig[p].method
            /\ areq[p].url = alocation[p]
            /\ areq[p].headers.Authorization = <<>>

C10_Witness ==
    \E p \in Callers :
        /\ apc[p] = "redirect"
        /\ aorig[p].headers.Authorization # <<>>
        /\ areq[p].url \in Locations


(***************************************************************************)
(* Properties of manifest resolution.                                      *)
(***************************************************************************)
\* The entry the resolver is to select: the first, in list order, whose os
\* and architecture are the host's (0: none).
FirstMatching(entries, platform) ==
    LET matching == {i \in 1..Len(entries) :
                        /\ entries[i].os = platform.os
                        /\ entries[i].architecture = platform.architecture}
    IN  IF matching = {} THEN 0
        ELSE CHOOSE i \in matching : \A j \in matching : i <= j

ChildRequests == {rreqs[i] : i \in 1..Len(rreqs)} \ {ReferenceKey}

\* A call of resolved_manifest has returned after the top-level manifest
\* was obtained.
ResolvedTop ==
    /\ rpc = "idle"
    /\ rcalls > 0
    /\ ReferenceKey \in DOMAIN manifest_cache

\* C11: for a top-level manifest of list or index type, resolved_manifest
\* gets the child manifest of the first entry matching the host's os and
\* normalized architecture, by that entry's digest and no other, and
\* returns it; when no entry matches it returns an error and gets no child.
C11_ListSelectsFirstMatchingEntry ==
    (ResolvedTop /\ registry.mime_type \in ListTypes) =>
        LET want == FirstMatching(registry.entries, get_os_platform(rarch))
        IN  IF want = 0
            THEN rresult = <<"Err">> /\ ChildRequests = {}
            ELSE /\ ChildRequests \subseteq {EntryDigest(want)}
                 /\ \/ rresult = <<"Ok", ChildManifest(EntryDigest(want))>>
                    \/ rresult = <<"Err">> /\ ChildRequests # {}

\* C12: a top-level manifest that is a single-image manifest (Docker v2
\* schema2 or OCI image manifest) is returned unchanged, and no further
\* manifest request is sent.
C12_SingleManifestReturnedAsIs ==
    (ResolvedTop /\ registry.mime_type \in
            {MEDIA_TYPE_DOCKER_V2_SCHEMA2_MANIFEST, MEDIA_TYPE_IMAGE_MANIFEST}) =>
        /\ rresult = <<"Ok", registry>>
        /\ ChildRequests = {}

(***************************************************************************)
(* Properties of reference parsing.                                        *)
(***************************************************************************)

Max(S) == CHOOSE x \in S : \A y \in S : y <= x

Min(S) == CHOOSE x \in S : \A y \in S : x <= y

\* What a reference string is made of, read off the string itself: the part
\* before "@", the tag after the first ":" that follows the last "/", and
\* the name before that tag.
BeforeDigest(s) == IF Find(s, "@") = 0 THEN s ELSE SubSeq(s, 1, Find(s, "@") - 1)

GivenDigest(s) == IF Find(s, "@") = 0 THEN <<>> ELSE SubSeq(s, Find(s, "@") + 1, Len(s))

LastSlash(s) == Max({0} \cup {i \in 1..Len(s) : s[i] = "/"})

TagColon(s) ==
    LET after == {i \in 1..Len(s) : s[i] = ":" /\ i > LastSlash(s)}
    IN  IF after = {} THEN 0 ELSE Min(after)

GivenTag(s) ==
    LET body == BeforeDigest(s)
    IN  IF TagColon(body) = 0 THEN <<>> ELSE SubSeq(body, TagColon(body) + 1, Len(body))

GivenName(s) ==
    LET body == BeforeDigest(s)
    IN  IF TagColon(body) = 0 THEN body ELSE SubSeq(body, 1, TagColon(body) - 1)

\* The first slash-separated token of the name, when a slash follows it.
FirstToken(s) ==
    LET name == GivenName(s)
    IN  IF Find(name, "/") = 0 THEN <<>> ELSE SubSeq(name, 1, Find(name, "/") - 1)

LooksLikeDomain(token) ==
    /\ token # <<>>
    /\ \/ \E i \in 1..Len(token) : token[i] \in Dotted \cup {":"}
       \/ token = <<"localhost">>

ExpectedDomain(s) ==
    IF LooksLikeDomain(FirstToken(s)) THEN FirstToken(s) ELSE DEFAULT_DOCKER_DOMAIN

ExpectedPath(s) ==
    LET name == GivenName(s)
        remaining == IF LooksLikeDomain(FirstToken(s))
                        THEN SubSeq(name, Find(name, "/") + 1, Len(name))
                        ELSE name
    IN  IF ExpectedDomain(s) = DEFAULT_DOCKER_DOMAIN /\ Find(remaining, "/") = 0
            THEN DEFAULT_DOCKER_IMGNAME_PREFIX \o <<"/">> \o remaining
            ELSE remaining

ExpectedTag(s) == IF GivenTag(s) = <<>> THEN DEFAULT_TAG ELSE GivenTag(s)

\* C13: an accepted reference string is parsed to the domain its first
\* slash-separated token names when that token contains "." or ":" or is
\* localhost, and to docker.io otherwise; to the remaining name as the path,
\* under library/ when the domain is docker.io and the path has no "/"; and
\* to the tag given, or to latest.
C13_ParseNormalizes ==
    (ref_fn = "parse" /\ ref_result.ok) =>
        /\ ref_result.reference.domain = ExpectedDomain(ref_input)
        /\ ref_result.reference.path = ExpectedPath(ref_input)
        /\ ref_result.reference.tag = ExpectedTag(ref_input)

\* C14: an accepted reference string with "@digest" is parsed to a reference
\* holding that digest and the tag given (or latest); without "@digest" the
\* reference holds no digest.
C14_ParseKeepsDigest ==
    (ref_fn = "parse" /\ ref_result.ok) =>
        IF Find(ref_input, "@") # 0
            THEN /\ ref_result.reference.digest # <<>>
                 /\ ref_result.reference.digest = new_from_str(GivenDigest(ref_input))
                 /\ ref_result.reference.tag = ExpectedTag(ref_input)
            ELSE ref_result.reference.digest = <<>>

\* A canonical reference string: "//", a domain, "/", a path that needs no
\* library/ prefix, ":" and a tag, and possibly "@" and a digest.
IsCanonical(s) ==
    /\ Len(s) > 2
    /\ SubSeq(s, 1, 2) = <<"/", "/">>
    /\ LET rest == SubSeq(s, 3, Len(s))
       IN  /\ LooksLikeDomain(FirstToken(rest))
           /\ IsDomain(FirstToken(rest))
           /\ GivenName(rest) = FirstToken(rest) \o <<"/">> \o ExpectedPath(rest)
           /\ GivenTag(rest) # <<>>
           /\ Find(rest, "@") # 0 => IsDigest(GivenDigest(rest))

\* C15: a canonical reference string, parsed and rendered with
\* string_within_transport, gives the same string again.
C15_CanonicalStringRoundTrip ==
    (ref_fn = "parse_reference" /\ IsCanonical(ref_input) /\ ref_string # <<>>) =>
        ref_string = ref_input

\* C16: the string_within_transport of a parsed reference, parsed again by
\* the transport's parse_reference, gives a reference with the same domain,
\* path, tag and digest.
C16_ReparseGivesSameReference ==
    (ref_result.ok /\ ref_reparsed # RefErr("none")) =>
        /\ ref_reparsed.ok
        /\ ref_reparsed.reference.domain = ref_result.reference.domain
        /\ ref_reparsed.reference.path = ref_result.reference.path
        /\ ref_reparsed.reference.tag = ref_result.reference.tag
        /\ ref_reparsed.reference.digest = ref_result.reference.digest

\* A reference with a domain, a port and a tag of its own has gone through
\* parse, string_within_transport and parse_reference.
C16_Witness ==
    /\ ref_fn = "parse"
    /\ ref_result.ok
    /\ ref_result.reference.domain = <<"localhost", ":", "8000">>
    /\ ref_result.reference.tag = <<"v9">>
    /\ ref_string # <<>>
    /\ ref_reparsed.ok

\* What parse_image_name is given after the first ":".
Remainder(s) == SubSeq(s, Find(s, ":") + 1, Len(s))

BeginsWithDoubleSlash(s) == Len(s) >= 2 /\ SubSeq(s, 1, 2) = <<"/", "/">>

\* C17: parse_image_name returns an error for an input without ":" and for
\* one whose remainder after the first ":" does not begin with "//" or is
\* "//" alone; it returns a reference only for a remainder that begins with
\* "//".
C17_ImageNameNeedsDoubleSlash ==
    (ref_fn = "parse_image_name") =>
        /\ (\/ Find(ref_input, ":") = 0
            \/ ~BeginsWithDoubleSlash(Remainder(ref_input))
            \/ Remainder(ref_input) = <<"/", "/">>)
                => (~ref_result.ok /\ ref_result.error # "panic")
        /\ ref_result.ok => BeginsWithDoubleSlash(Remainder(ref_input))

(***************************************************************************)
(* Properties of digests.                                                  *)
(***************************************************************************)

\* C18: verify, called on from_bytes(B) with a reader over some bytes,
\* returns true when these are B and false when they are not, and in both
\* cases returns after a read has found the end of the stream.
C18_FromBytesVerifies ==
    (vf_pc = "returned" /\ vf_source = "from_bytes") =>
        /\ vf_eof
        /\ vf_stream = <<>>
        /\ vf_hasher = vf_content
        /\ vf_value = (IF vf_digest = Digest_from_bytes(vf_content) THEN "true" ELSE "false")
        /\ \A bytes \in ByteStrings :
              vf_digest = Digest_from_bytes(bytes) =>
                  (vf_value = "true" <=> bytes = vf_content)

\* verify has returned false for a stream that begins with the bytes the
\* digest was made from and goes on after them.
C18_Witness ==
    /\ vf_pc = "returned"
    /\ vf_source = "from_bytes"
    /\ vf_digest = Digest_from_bytes(<<0>>)
    /\ vf_content = <<0, 1>>
    /\ vf_eof
    /\ vf_value = "false"

\* A text the parsers should take: one ":" with an algorithm before it and
\* lowercase hex digits after it.
LowerHexWords == {"hex64", "abc", "e3", "0", "1"}

IsWellFormedDigest(s) ==
    LET tokens == Split(s, ":")
    IN  /\ Len(tokens) = 2
        /\ tokens[1] # <<>>
        /\ tokens[2] # <<>>
        /\ \A i \in 1..Len(tokens[2]) : tokens[2][i] \in LowerHexWords

\* C19: a digest parser accepts a text only if it has exactly one ":", an
\* algorithm before it and lowercase hex digits after it, and rejects every
\* other text; the digest of an accepted text serializes to that text.
C19_DigestParsingIsStrict ==
    (dg_fn # "none") =>
        /\ dg_result.ok => IsWellFormedDigest(dg_text)
        /\ ~dg_result.ok => dg_result.error \in {"CannotParse", "custom", "None"}
        /\ dg_out # <<>> => dg_out = dg_text

\* C20: verify ends with a value: true or false when the algorithm of the
\* digest is supported, an error that names the unsupported algorithm when
\* it is not.
C20_VerifyEndsWithValue ==
    (vf_pc \notin {"idle", "loop"} /\ ~vf_broken) =>
        IF to_lowercase(vf_digest.algorithm) = <<"sha256">>
            THEN vf_pc = "returned" /\ vf_value \in {"true", "false"}
            ELSE vf_pc = "error" /\ vf_value = "AlgorithmNotSupported"

(***************************************************************************)
(* Properties of the overlay storage.                                      *)
(***************************************************************************)

\* The entries <dir>/.wh.<name> of the tar, and where each one's device
\* belongs.
FileWhiteouts ==
    {i \in 1..Len(ov_tar) : ov_tar[i].path[Len(ov_tar[i].path)] = ".wh.deleted"}

DevicePath(i) == Parent(ov_tar[i].path) \o <<"deleted">>

OpaqueEntries ==
    {i \in 1..Len(ov_tar) : ov_tar[i].path[Len(ov_tar[i].path)] = WHITEOUT_OPAQUE}

\* C21: after apply_layer has returned Ok in a process that may make
\* devices, every entry <dir>/.wh.<name> of the tar has a character device
\* at diff/<dir>/<name>, whatever the order of the entries and whether or
\* not <dir> was made before (no other entry of the tar being for that very
\* path).
C21_WhiteoutDeviceExists ==
    (ov_pc = "Ok" /\ ov_privileged) =>
        \A i \in FileWhiteouts :
            (\A j \in 1..Len(ov_tar) : ov_tar[j].path # DevicePath(i))
                => Kind(ov_fs, DevicePath(i)) = "chr"

\* C22: after apply_layer has returned Ok, the directory above every entry
\* named .wh..wh..opq exists under diff/ and carries
\* trusted.overlay.opaque = "y", and nothing named .wh..wh..opq exists under
\* diff/.
C22_OpaqueDirectoryMarked ==
    (ov_pc = "Ok") =>
        /\ \A i \in OpaqueEntries :
              /\ Kind(ov_fs, Parent(ov_tar[i].path)) = "dir"
              /\ Parent(ov_tar[i].path) \in ov_opaque
        /\ \A n \in ov_fs : n.path = <<>> \/ n.path[Len(n.path)] # WHITEOUT_OPAQUE

\* apply_layer has returned Ok for a tar whose first entry is
\* dir/sub/.wh..wh..opq, nothing having made dir/sub before.
C22_Witness ==
    /\ ov_pc = "Ok"
    /\ Len(ov_tar) >= 2
    /\ ov_tar[1].path = <<"dir", "sub", ".wh..wh..opq">>
    /\ <<"dir", "sub">> \in ov_opaque

(***************************************************************************)
(* Properties of repeated pulls.                                           *)
(***************************************************************************)

\* C23: a second pull_container_image with force, after a first that
\* returned Ok, from a registry serving the same content, finds the first
\* layout deleted before it creates its own, and when it returns Ok the
\* layout holds the same files with the same contents as after the first.
C23_ForcedRepullSameLayout ==
    (round = 2) =>
        /\ pc = "create" => fs = NoLayout
        /\ (pc = "returned" /\ result = "Ok") => fs = first_fs

\* The second call has returned Ok for an image of two layers, one of which
\* is in the layout.
C23_Witness ==
    /\ round = 2
    /\ pc = "returned"
    /\ result = "Ok"
    /\ Len(served.layers) = 2
    /\ Sha256Hex(LayerBytes(2)) \in DOMAIN fs.files
    /\ fs = first_fs

(***************************************************************************)
(* Properties of the layout's writes.                                      *)
(***************************************************************************)

\* C24: concurrent write_blob_file calls with different digests all
\* succeed, whether or not blobs/<alg> exists when they begin, and the file
\* of each holds the bytes of its reader.
C24_ConcurrentBlobWritesSucceed ==
    \A w \in BlobWriters :
        /\ bw_pc[w] # "Err"
        /\ bw_pc[w] = "Ok" => lo_blob[w] = [exists |-> TRUE, data |-> ReaderOf(w)]

\* C25: index.json and oci-layout, whenever they exist, hold what they held
\* before the write or the whole new serialization.
C25_MetaFilesWrittenAtomically ==
    \A f \in MetaFiles :
        lo_meta[f].exists =>
            \/ lo_meta[f] = lo_previous[f]
            \/ lo_meta[f].data = Serialized(f)

(***************************************************************************)
(* Properties of the client's callers together.                            *)
(***************************************************************************)

\* The callers whose refresh of the bearer token (the ping of /v2/ or the
\* token exchange after it) is in flight.
Refreshing == {p \in Callers : apc[p] \in {"ping", "token"}}

\* C26: of the callers that share one client, at most one has a refresh of
\* the bearer token in flight, and when none has, and a token was issued,
\* the client holds the token installed last.
C26_OneRefreshInFlight ==
    /\ Cardinality(Refreshing) <= 1
    /\ (Refreshing = {} /\ tokensIssued > 0) =>
          (bearer_token # <<>> /\ bearer_token[1].token = lastInstalled)

(***************************************************************************)
(* Properties of the pull's order of events.                               *)
(***************************************************************************)

\* The steps of a layer task that fetch a blob or write into the layout.
FetchOrWriteStep(i) ==
    /\ task[i] \in {"fetch1", "fetch2", "write"}
    /\ task'[i] # task[i]

\* C27: once pull_container_image has returned, no layer task of the pull
\* fetches a blob or writes into the layout.
C27_NoLayerTaskAfterReturn ==
    [][pc = "returned" => \A i \in Layers : ~FetchOrWriteStep(i)]_vars

\* A layer task that returned Ok: it wrote its blob, or it found a diff_id
\* mismatch, logged it and returned.
ReturnedOk(i) == task[i] \in {"ok", "skipped"}

\* C28: write_index_json runs only when every spawned layer task has
\* completed without an error, so that index.json is not written in a pull
\* in which a layer task failed; and oci-layout is there only when
\* index.json is.
C28_IndexAfterAllLayersSucceed ==
    /\ [][(pc = "await" /\ pc' = "layout") => \A i \in 1..spawned : ReturnedOk(i)]_vars
    /\ [](fs.oci_layout => fs.has_index)

\* The blob of the resolved manifest and the config blob are in the layout.
ManifestAndConfigWritten ==
    LET m == from_bytes(manifest)
        c == ParseManifest(manifest).config
    IN  /\ manifest # 0
        /\ config # 0
        /\ m.hex_digest \in DOMAIN fs.files
        /\ fs.files[m.hex_digest] = manifest
        /\ c.hex_digest \in DOMAIN fs.files
        /\ fs.files[c.hex_digest] = config

\* The step in which layer task i is spawned.
Spawns(i) == task[i] = "none" /\ task'[i] # "none"

\* C29: a layer task is spawned only when the blobs of the resolved manifest
\* and of the config have been written, layer blobs are requested only by
\* spawned tasks, and a pull that fails before the layers spawns no task.
C29_BlobsWrittenBeforeLayers ==
    /\ [][\A i \in Layers : Spawns(i) => (pc = "spawn" /\ ManifestAndConfigWritten)]_vars
    /\ []("layer" \in reqLog => spawned > 0)
    /\ []((manifest = 0 \/ config = 0) => (spawned = 0 /\ \A i \in Layers : task[i] = "none"))

\* Every layer task of a pull has been spawned over the two written blobs.
C29_Witness ==
    /\ pc = "spawn"
    /\ spawned = MaxLayers
    /\ ManifestAndConfigWritten

\* The blob file of layer i in the layout.
LayerFile(i) == Sha256Hex(LayerBytes(i))

\* The step in which the blob file of layer i appears in the layout.
LayerFileAppears(i) ==
    /\ LayerFile(i) \notin DOMAIN fs.files
    /\ LayerFile(i) \in DOMAIN fs'.files

\* C30: a layer task is at its second fetch or at its write only when the
\* verify of the layer's decompressed blob against its diff_id has returned
\* true, and the blob file of a layer appears in the layout only in a step
\* of such a task.
C30_LayerWrittenAfterVerify ==
    /\ [](\A i \in Layers : task[i] \in {"fetch2", "write"} => i \in verified)
    /\ [][\A i \in Layers : LayerFileAppears(i) => (task[i] = "write" /\ i \in verified)]_vars

\* A later layer's blob is in the layout while an earlier layer is not yet
\* verified: the layers are not ordered among themselves.
C30_Witness ==
    \E i, j \in Layers :
        /\ i < j
        /\ LayerFile(j) \in DOMAIN fs.files
        /\ task[j] = "ok"
        /\ task[i] \in {"fetch1", "verify"}
        /\ i \notin verified

(* Properties of the client once no authorization is required. *)
\* The step in which caller p starts an operation.
Starts(p) == apc[p] = "idle" /\ apc'[p] # "idle"

\* C31: auth_required stays false once it is false, and an operation that
\* starts while it is false goes straight to its request, with no ping and
\* no token exchange, and sends no Authorization header.
C31_NoAuthAfterPingSuccess ==
    /\ [][~auth_required => ~auth_required']_vars
    /\ [][\A p \in Callers :
            (~auth_required /\ Starts(p))
                => /\ apc'[p] = "target"
                   /\ areq'[p].headers.Authorization = <<>>
                   /\ tokensIssued' = tokensIssued]_vars

\* An operation that started with a valid token in the client, after a ping
\* had been answered with 200, has sent its request without the token.
C31_Witness ==
    \E p \in Callers :
        /\ ~auth_required
        /\ apc[p] = "target"
        /\ startedValid[p]
        /\ bearer_token # <<>>
        /\ areq[p].headers.Authorization = <<>>

(***************************************************************************)
(* Properties of the manifest cache and of the image's cached config.      *)
(***************************************************************************)

\* The key get_manifest is to use for the digest it is given.
WantedKey(digest) ==
    IF digest # "" THEN digest
    ELSE IF im_digest # "" THEN im_digest
    ELSE ReferenceKey

\* The step in which get_manifest looks into the cache.
LooksUp ==
    /\ im_todo # <<>>
    /\ im_todo[1].op = "get_manifest"
    /\ im_wait = ""
    /\ <<im_todo, im_wait>>' # <<im_todo, im_wait>>

\* The step in which do_get_manifest returns.
ManifestAnswered == im_wait \notin {"", "blob"} /\ im_wait' = ""

\* The answers the registry gave to requests of one key.
FetchesOf(key) == {i \in 1..Len(im_fetched) : im_fetched[i][1] = key}

\* C32: get_manifest uses the given digest, else the reference's digest, else
\* its tag as the key; it sends a request exactly when the key is not in the
\* cache and otherwise returns the cached manifest; a fetch that succeeds
\* adds that key and nothing else, one that fails leaves the cache as it
\* was; and the cache holds for a key what its first fetch brought.
C32_CacheKeyedAndFilledOnMiss ==
    /\ [][LooksUp =>
            LET key == WantedKey(im_todo[1].digest)
            IN  IF key \in DOMAIN im_cache
                THEN im_wait' = "" /\ im_manifest' = im_cache[key]
                ELSE im_wait' = key]_vars
    /\ [][ManifestAnswered =>
            IF Len(im_fetched') > Len(im_fetched)
            THEN /\ DOMAIN im_cache' = DOMAIN im_cache \cup {im_wait}
                 /\ im_wait \notin DOMAIN im_cache
                 /\ \A k \in DOMAIN im_cache : im_cache'[k] = im_cache[k]
                 /\ im_cache'[im_wait].manifest = im_fetched'[Len(im_fetched')][2]
            ELSE im_cache' = im_cache]_vars
    /\ [][ManifestAnswered \/ im_cache' = im_cache]_vars
    /\ [](\A key \in DOMAIN im_cache :
            /\ Cardinality(FetchesOf(key)) = 1
            /\ \A i \in FetchesOf(key) : im_cache[key].manifest = im_fetched[i][2])

\* A second get_manifest of a reference with a digest was answered from the
\* cache.
C32_Witness ==
    /\ im_digest # ""
    /\ im_calls = 2
    /\ im_todo = <<>>
    /\ im_result = <<"Ok", "manifest", im_registry>>
    /\ DOMAIN im_cache = {im_digest}
    /\ Len(im_fetched) = 1

\* C33: the config blob, the top-level manifest and each child manifest are
\* fetched at most once with success, and what a call returns are the bytes
\* of that fetch.
C33_FetchedAtMostOnce ==
    /\ \A key \in {"blob", ReferenceKey, ReferenceDigest} \cup GivenDigests :
           Cardinality(FetchesOf(key)) <= 1
    /\ im_cfgblob # <<>> => \A i \in FetchesOf("blob") : im_cfgblob[1] = im_fetched[i][2]
    /\ (im_result[1] = "Ok" /\ im_result[2] = "bytes") =>
           /\ FetchesOf("blob") # {}
           /\ \A i \in FetchesOf("blob") : im_result[3] = im_fetched[i][2]
    /\ (im_result[1] = "Ok" /\ im_result[2] = "manifest") =>
           \E i \in 1..Len(im_fetched) :
               /\ im_fetched[i][1] # "blob"
               /\ im_result[3].manifest = im_fetched[i][2]

\* A second call has returned the config bytes of the first call's fetch.
C33_Witness ==
    /\ im_calls = 2
    /\ im_todo = <<>>
    /\ im_result[1] = "Ok"
    /\ im_result[2] = "bytes"
    /\ im_fetched[Len(im_fetched)][1] = "blob"
    /\ Cardinality(FetchesOf("blob")) = 1

\* The digest of the list entry the resolver selects on this host.
SelectedDigest == manifest_for_our_os_arch(im_registry, get_os_platform(im_arch))

\* C39: when the resolver has got the manifest of the list entry it selects,
\* the bytes the source holds for it hash to the entry's digest.
C39_ChildManifestHashesToDigest ==
    (/\ WantedKey("") \in DOMAIN im_cache
     /\ SelectedDigest \in DOMAIN im_cache)
        => im_cache[SelectedDigest].manifest = SelectedDigest

(***************************************************************************)
(* Properties of the transport registry.                                   *)
(***************************************************************************)

\* What stands before the first ":" of an image name.
TransportName(image_name) == SubSeq(image_name, 1, Find(image_name, ":") - 1)

\* C40: parse_image_name of "<transport>:<rest>" with a transport that is
\* not registered returns an error value and does not abort.
C40_UnknownTransportIsAnError ==
    (/\ ref_fn = "parse_image_name"
     /\ Find(ref_input, ":") # 0
     /\ TransportName(ref_input) \notin ALL_TRANSPORTS_MAP)
        => (~ref_result.ok /\ ref_result.error # "panic")

(***************************************************************************)
(* Properties of what counts as a whiteout.                                *)
(***************************************************************************)

\* The names that start with ".wh.".
PrefixedNames == {".wh.deleted", WHITEOUT_OPAQUE}

\* The entries whose basename does not start with ".wh.".
PlainEntries ==
    {i \in 1..Len(ov_tar) : ov_tar[i].path[Len(ov_tar[i].path)] \notin PrefixedNames}

\* C34: after apply_layer has returned Ok, every entry whose basename does
\* not start with ".wh." is under diff/ at its own path, also when ".wh."
\* occurs elsewhere in the path, and nothing has been made at the path with
\* the ".wh." taken out.
C34_OnlyBasenamePrefixIsWhiteout ==
    ov_pc = "Ok" =>
        \A i \in PlainEntries :
            /\ Kind(ov_fs, ov_tar[i].path) = ov_tar[i].kind
            /\ (mknod_path(ov_tar[i].path) # ov_tar[i].path
                    /\ \A j \in 1..Len(ov_tar) : ov_tar[j].path # mknod_path(ov_tar[i].path))
                => Kind(ov_fs, mknod_path(ov_tar[i].path)) = "none"

(***************************************************************************)
(* Properties of perform_http_request.                                     *)
(***************************************************************************)

\* C35: an operation's request is sent once, when the operation has its
\* authorization; the only further request is the one to the Location of a
\* redirect, sent once; no step that ends otherwise than with an error is
\* the answer of an error, of a status that is neither success nor a
\* redirect, of a redirect without Location or of a failure of the
\* re-issued request.
C35_NoRetryButOneRedirect ==
    /\ [][\A p \in Callers :
            /\ (apc[p] # "target" /\ apc'[p] = "target") => apc[p] \in {"idle", "ping", "token"}
            /\ (apc[p] = "target" /\ apc'[p] # "target") =>
                  \/ apc'[p] = "idle"
                  \/ /\ apc'[p] = "redirect"
                     /\ areq'[p].url \in Locations
                     /\ areq'[p].method = areq[p].method
            /\ (apc[p] # "redirect" /\ apc'[p] = "redirect") => apc[p] = "target"
            /\ (apc[p] = "redirect" /\ apc'[p] # "redirect") =>
                  (apc'[p] = "idle" /\ aresult'[p] \in {"Ok", "Err"})]_vars
    /\ [][\A p \in Callers :
            (apc[p] = "target" /\ apc'[p] # "target"
                    /\ ~(apc'[p] = "idle" /\ aresult'[p] = "Err")) =>
                \A resp \in {"error", "404", "3xx_no_location"} : ~TargetResponse(p, resp)]_vars
    /\ [][\A p \in Callers :
            (apc[p] = "redirect" /\ apc'[p] # "redirect"
                    /\ ~(apc'[p] = "idle" /\ aresult'[p] = "Err")) =>
                ~RedirectResponse(p, FALSE)]_vars

\* The request to the Location of a redirect is in flight.
C35_Witness ==
    \E p \in Callers :
        /\ apc[p] = "redirect"
        /\ areq[p].url \in Locations
        /\ aorig[p].url \in Operations

(***************************************************************************)
(* Properties of a token's validity.                                       *)
(***************************************************************************)

\* The instant the client's token expires at.
ExpiresAt == bearer_token[1].issued_at + bearer_token[1].expires_in

\* C36: is_still_valid of the client's token is true at every instant before
\* issued_at + expires_in and false from that instant on, and an operation
\* that starts with a token and needs authorization uses the token exactly
\* when it starts before that instant.
C36_ValidStrictlyBeforeExpiry ==
    /\ [](bearer_token # <<>> =>
            /\ now < ExpiresAt => is_still_valid(bearer_token[1])
            /\ now >= ExpiresAt => ~is_still_valid(bearer_token[1]))
    /\ [][\A p \in Callers :
            (Starts(p) /\ auth_required /\ bearer_token # <<>>) =>
                IF now < ExpiresAt
                THEN apc'[p] = "target" /\ areq'[p].headers.Authorization # <<>>
                ELSE apc'[p] = "ping"]_vars
    /\ [][tokensIssued' # tokensIssued =>
            \A p \in Callers : \A access \in BOOLEAN :
                TokenIssued(p, access, <<>>, <<>>) =>
                    /\ bearer_token'[1].issued_at = now
                    /\ bearer_token'[1].expires_in = 60]_vars

\* A token issued for one second is at the instant of its expiry, and the
\* only operation under way has pinged.
C36_Witness ==
    \E p \in Callers :
        /\ bearer_token # <<>>
        /\ bearer_token[1].expires_in = 1
        /\ now = ExpiresAt
        /\ apc[p] = "ping"
        /\ \A q \in Callers \ {p} : apc[q] = "idle"
        /\ tokensIssued = 1

(***************************************************************************)
(* Properties of the client's state under its callers.                     *)
(***************************************************************************)

\* The step in which caller p hands its request to perform_http_request.
SendsRequest(p) == apc[p] # "target" /\ apc'[p] = "target"

\* C37: auth_required only goes from true to false; a token, once stored,
\* stays stored; an operation that builds its headers while auth_required
\* is true finds a token and sends it; and neither the start of an
\* operation, nor a ping answered with success, nor a token that has been
\* issued ends in the panic of an absent token.
C37_HeaderNeverReadsAbsentToken ==
    /\ [][auth_required' # auth_required => (auth_required /\ ~auth_required')]_vars
    /\ [][bearer_token # <<>> => bearer_token' # <<>>]_vars
    /\ [][\A p \in Callers :
            (SendsRequest(p) /\ auth_required') =>
                /\ bearer_token' # <<>>
                /\ areq'[p].headers.Authorization = <<"Bearer", bearer_token'[1].token>>]_vars
    /\ [][\A p \in Callers :
            (apc[p] \in {"idle", "ping", "token"} /\ apc'[p] = "idle"
                    /\ aresult'[p] = "panic" /\ aresult[p] # "panic") =>
                /\ apc[p] # "idle"
                /\ ~PingResponse(p, "200")
                /\ \A access \in BOOLEAN, issued_at \in IssuedAts, expires_in \in ExpiresIns :
                       ~TokenIssued(p, access, issued_at, expires_in)]_vars

\* While authorization is required both callers have sent a request with
\* the token, one of them after the other had the token stored.
C37_Witness ==
    /\ auth_required
    /\ bearer_token # <<>>
    /\ \A p \in Callers :
           /\ apc[p] = "target"
           /\ areq[p].headers.Authorization = <<"Bearer", bearer_token[1].token>>
    /\ tokensIssued = 1

(***************************************************************************)
(* The pull under a scheduler that lets every step that can be taken be    *)
(* taken: every request and every file operation comes to its end, and the *)
(* runtime goes on polling the tasks that are ready.                       *)
(***************************************************************************)
\* One pull that goes through every phase: the layout is there and is
\* overwritten (force), and a failure deletes what was written (clean_on_err).
PullForcedAndCleaning == CheckExisting(TRUE, TRUE)

\* The registry serves a manifest and a config that list as many layers.
FetchAgreeingManifest ==
    \E ok, wrote \in BOOLEAN, nL \in 0..MaxLayers :
        /\ (~ok => nL = 0 /\ wrote)
        /\ ResolvedManifest(ok, wrote, nL, nL)

NextLive ==
    \/ PullForcedAndCleaning
    \/ DeleteUnlink
    \/ DeleteRmdir
    \/ CreateFsPath
    \/ FetchAgreeingManifest
    \/ FetchConfig
    \/ \E i \in Layers : SpawnLayer(i)
    \/ SpawnDone
    \/ \E i \in Layers : AwaitLayer(i)
    \/ WriteIndexJson
    \/ WriteImageLayout
    \/ \E i \in Layers : LayerFetch1(i)
    \/ \E i \in Layers : LayerVerify(i)
    \/ \E i \in Layers : LayerFetch2(i)
    \/ \E i \in Layers : TaskWrite(i)

Init_Live == Init /\ fs = OldLayout

Spec_Live == Init_Live /\ [][NextLive]_vars /\ WF_vars(NextLive)

\* C38: the permits that are not free are those of the tasks that have not
\* ended, and pull_container_image returns: the spawning loop, which comes
\* before the return, does not wait for ever.
C38_PermitsReleasedAndPullReturns ==
    /\ [](permits = max_parallel_dloads - Cardinality({i \in Layers : task[i] \in Running}))
    /\ <>(pc = "returned")

\* A pull of more layers than there are permits has returned, with layer
\* tasks that succeeded and layer tasks that failed.
C38_Witness ==
    /\ pc = "returned"
    /\ spawned = MaxLayers
    /\ spawned > max_parallel_dloads
    /\ \E i \in Layers : task[i] = "ok"
    /\ \E i \in Layers : task[i] \in {"err", "skipped"}
    /\ \A i \in Layers : task[i] \in Finished

==========================================================================
